---- MODULE Spec2Model ----
(***************************************************************************)
(* A model of reel's parallel chunked-encoding engine:                     *)
(*   - chunk.LoadScenes / chunk.Chunkify     (internal/chunk/chunk.go)     *)
(*   - chunk.GetResume / AppendDone / DoneSet / TotalEncoded*              *)
(*   - encode.CapWorkers / CalculatePermits  (internal/encode/permits.go)  *)
(*   - encode.EncodeAll, streamingWorker, encodeChunkStreaming             *)
(*     (the encode package's pipeline file)                                *)
(***************************************************************************)
EXTENDS Integers, Sequences, FiniteSets, TLC

VARIABLES
    \* ---- EncodeAll: inputs and environment ----
    chunks,        \* []chunk.Chunk handed to EncodeAll
    cfgWorkers,    \* cfg.Workers
    cfgBuffer,     \* cfg.ChunkBuffer
    availUnits,    \* util.AvailableMemoryBytes() reading, in MemUnit multiples
    doneTxt,       \* <workdir>/done.txt: the sequence of well-formed records
    ivf,           \* indices whose <workdir>/encode/NNNN.ivf exists
    cancelled,     \* ctx.Done() is closed
    \* ---- EncodeAll: locals shared by its goroutines ----
    pc,            \* position of EncodeAll itself
    remaining,     \* remainingChunks
    actualWorkers, \* actualWorkers
    permits,       \* permits
    sem,           \* permits available in the semaphore
    chunkChan,     \* buffered chunk channel (capacity permits)
    chunkClosed,   \* close(chunkChan) has run
    resultChan,    \* buffered result channel
    resultClosed,  \* close(resultChan) has run
    progress,      \* worker.Progress
    encodeErr,     \* atomic.Pointer[error]
    dpc,           \* dispatcher goroutine: position
    di,            \* dispatcher goroutine: index into remainingChunks
    wpc,           \* worker goroutines: position
    wch,           \* worker goroutines: chunk in hand
    cpc,           \* collector goroutine: position
    retWorkers,    \* EncodeAll's first result
    retErr,        \* EncodeAll's second result
    \* ---- observation of the run (history) ----
    lastCb,        \* snapshot handed to the latest progressCb call
    cbCount,       \* number of progressCb calls
    started,       \* chunk indices for which an encoder process was spawned
    succeeded,     \* chunk indices whose encode returned a success result
    logStart,      \* number of records done.txt held when EncodeAll was called
    lostAppends,   \* chunk indices whose AppendDone failed
    latchCalls,    \* number of calls of setError
    latchWrites,   \* number of stores into encodeErr
    firstErr,      \* the first error ever passed to setError
    \* ---- chunk.LoadScenes / Chunkify on their own ----
    scPc, scTotal, scNums, scScenes, scChunks,
    \* ---- encode.CapWorkers on its own ----
    cwPc, cwIn, cwOut,
    \* ---- processing.DetectCrop ----
    crPc,          \* position in DetectCrop
    crIn,          \* disableCrop and the source's width and height
    crTaken,       \* number of sample goroutines that have finished
    crCounts,      \* cropCounts: rectangle -> number of samples reporting it
    crOut,         \* the CropResult returned
    \* ---- chunk.MergeBatched / MergeOutput as ProcessChunked calls them ----
    mgPc,          \* position in the merge stage
    mgN,           \* len(chunks)
    mgDir,         \* <workDir>/encode: file name -> chunk indices the file holds
    mgTemp,        \* <workDir>/temp_merge: file name -> chunk indices
    mgBatch,       \* batchNum
    mgStart,       \* start of the batch loop
    mgVideo,       \* <workDir>/video.mkv: chunk indices it holds
    mgConcats,     \* history: the ffmpeg concat runs, in order
    mgRuns,        \* runs of ProcessChunked started on the work directory after the first
    mgErr,         \* the error the merge stage returned, "" while none
    \* ---- processing.ProcessChunked for one input ----
    ppPc,          \* position of ProcessChunked
    ppIdx,         \* phase 1 indexing goroutine: "idle", "run", "ok", "fail"
    ppCrop,        \* phase 1 crop goroutine: "idle", "run", "done"
    ppAudio,       \* audio extraction goroutine: "idle", "run", "ok", "fail"
    ppHasAudio,    \* len(audioStreams) > 0
    ppMany,        \* len(chunks) > 500
    ppWorkDir,     \* the work directory: "absent", "present", "removed"
    ppOut,         \* a file exists at outputPath
    ppErr,         \* the error ProcessChunked is about to return
    ppRet,         \* the error ProcessChunked returned
    ppLog,         \* history: stage starts and stage failures, in order
    \* ---- validation.ValidateOutputVideo and ProcessVideos' verdict ----
    vlPc,          \* position in ValidateOutputVideo / ProcessVideos
    vlOpts,        \* validation.Options: which expectations are given
    vlRes,         \* validation.Result: the flags
    vlDiff,        \* |output duration - expected duration| in milliseconds
    vlErr,         \* the error ValidateOutputVideo returned
    vlPassed,      \* validationPassed as handed to rep.ValidationComplete
    vlChecks,      \* history: check -> "none", "pass", "fail" or "skipped"
    vlIn,          \* what the HDR and audio probes of the output returned
    \* ---- done.txt as text: chunk.AppendDone and chunk.GetResume ----
    rlExists,      \* done.txt exists
    rlFile,        \* its bytes
    rlAppended,    \* history: the records whose AppendDone completed, in order
    rlEncoded,     \* history: indices of the chunks AppendDone was called for
    rlTorn,        \* history: a write was cut short by a crash
    rlFailed,      \* history: chunk indices whose AppendDone returned an error
    rlLoaded,      \* ChunksDone of the latest GetResume
    \* ---- configuration: executeEncode, reel.New, Config.Validate ----
    cfPc,          \* position in executeEncode / New
    cfGiven,       \* history: the settings as the caller gave them
    cfCfg,         \* the config.Config
    cfErr,         \* the error returned
    cfWork,        \* ProcessVideos was called
    \* ---- processing.ProcessVideos: the loop over the inputs of a batch ----
    bvPc,          \* position in ProcessVideos
    bvN,           \* len(filesToProcess)
    bvIdx,         \* fileIdx, counted from 1
    bvCancelled,   \* ctx.Err() != nil
    bvResults,     \* results
    bvSummary,     \* the BatchSummary handed to rep.BatchComplete
    bvLog,         \* history: what happened to each input reached
    \* ---- encodeChunkStreaming: the frame loop of one worker ----
    fePc,          \* position in encodeChunkStreaming after cmd.Start()
    feFrames,      \* frameCount
    feI,           \* loop index i
    feCancelled,   \* ctx.Err() != nil
    feLatched,     \* getError() != nil: another chunk's failure is latched
    feRead,        \* history: frames decoded so far
    feWritten,     \* history: frames written to the encoder so far
    feClosed,      \* stdin.Close() has run
    feWaited,      \* cmd.Wait() has run
    feResult,      \* the EncodeResult returned
    feAtCancel,    \* history: position and counts when ctx was cancelled
    feAtLatch,     \* history: position and counts when the error was latched
    \* ---- crop sampler goroutines (DetectCrop) ----
    spPc,          \* main goroutine: off, loop, wait, returned
    spIn,          \* the source frame size
    spI,           \* the loop variable i of the sample-point loop
    spWaiting,     \* sample goroutines blocked on sem <- struct{}{}
    spAcquired,    \* sample goroutines holding the semaphore, detector not started
    spDetecting,   \* sample goroutines whose ffmpeg subprocess is running
    spHolding,     \* sample goroutines past the sample, semaphore not yet released
    spReleased,    \* sample goroutines past <-sem, before wg.Done
    spWg,          \* the WaitGroup counter
    spSem,         \* len(sem)
    spCounts,      \* cropCounts
    spYield,       \* per rectangle, the samples whose detector reported it
    spOut,         \* the CropResult returned
    \* ---- threads per worker (EncodeAll) ----
    thPc,          \* off, call, set
    thIn,          \* actualWorkers, width, the core counts and cfg.LogicalProcessors on entry
    thOut,         \* cfg.LogicalProcessors after the calculation
    \* ---- two runs of DetectCrop over the same detector output ----
    dtPc,          \* "idle", "sampling" or "done"
    dtLines,       \* per sample point, the number of output lines per rectangle
    dtLeft,        \* sample points whose goroutine has not finished in this run
    dtCounts,      \* cropCounts of this run
    dtOut          \* the CropResults of the runs that returned

envVars   == <<chunks, cfgWorkers, cfgBuffer, availUnits, doneTxt, ivf, cancelled>>
runVars   == <<pc, remaining, actualWorkers, permits, sem, chunkChan, chunkClosed,
               resultChan, resultClosed, progress, encodeErr, dpc, di, wpc, wch,
               cpc, retWorkers, retErr>>
histVars  == <<lastCb, cbCount, started, succeeded, logStart, lostAppends,
               latchCalls, latchWrites, firstErr>>
poolVars  == <<envVars, runVars, histVars>>
sceneVars == <<scPc, scTotal, scNums, scScenes, scChunks>>
capVars   == <<cwPc, cwIn, cwOut>>
cropVars  == <<crPc, crIn, crTaken, crCounts, crOut>>
mergeVars == <<mgPc, mgN, mgDir, mgTemp, mgBatch, mgStart, mgVideo, mgConcats, mgRuns, mgErr>>
pipeVars  == <<ppPc, ppIdx, ppCrop, ppAudio, ppHasAudio, ppMany, ppWorkDir, ppOut, ppErr,
               ppRet, ppLog>>
validVars == <<vlPc, vlOpts, vlRes, vlDiff, vlErr, vlPassed, vlChecks, vlIn>>
logVars   == <<rlExists, rlFile, rlAppended, rlEncoded, rlTorn, rlFailed, rlLoaded>>
confVars  == <<cfPc, cfGiven, cfCfg, cfErr, cfWork>>
batchVars == <<bvPc, bvN, bvIdx, bvCancelled, bvResults, bvSummary, bvLog>>
frameVars == <<fePc, feFrames, feI, feCancelled, feLatched, feRead, feWritten, feClosed, feWaited, feResult, feAtCancel, feAtLatch>>
sampVars  == <<spPc, spIn, spI, spWaiting, spAcquired, spDetecting, spHolding, spReleased, spWg, spSem, spCounts, spYield, spOut>>
thrdVars  == <<thPc, thIn, thOut>>
detmVars  == <<dtPc, dtLines, dtLeft, dtCounts, dtOut>>
laterVars == <<cropVars, mergeVars, pipeVars, validVars, logVars, confVars, batchVars, frameVars, sampVars, thrdVars, detmVars>>
\* what the actions of one part leave alone: the variables of the others
firstVars == <<poolVars, sceneVars, capVars>>
cropRest  == <<firstVars, mergeVars, pipeVars, validVars, logVars, confVars, batchVars, frameVars, sampVars, thrdVars, detmVars>>
mergeRest == <<firstVars, cropVars, pipeVars, validVars, logVars, confVars, batchVars, frameVars, sampVars, thrdVars, detmVars>>
pipeRest  == <<firstVars, cropVars, mergeVars, validVars, logVars, confVars, batchVars, frameVars, sampVars, thrdVars, detmVars>>
validRest == <<firstVars, cropVars, mergeVars, pipeVars, logVars, confVars, batchVars, frameVars, sampVars, thrdVars, detmVars>>
logRest   == <<firstVars, cropVars, mergeVars, pipeVars, validVars, confVars, batchVars, frameVars, sampVars, thrdVars, detmVars>>
confRest  == <<firstVars, cropVars, mergeVars, pipeVars, validVars, logVars, batchVars, frameVars, sampVars, thrdVars, detmVars>>
batchRest == <<firstVars, cropVars, mergeVars, pipeVars, validVars, logVars, confVars, frameVars, sampVars, thrdVars, detmVars>>
frameRest == <<firstVars, cropVars, mergeVars, pipeVars, validVars, logVars, confVars, batchVars, sampVars, thrdVars, detmVars>>
sampRest  == <<firstVars, cropVars, mergeVars, pipeVars, validVars, logVars, confVars, batchVars, frameVars, thrdVars, detmVars>>
thrdRest  == <<firstVars, cropVars, mergeVars, pipeVars, validVars, logVars, confVars, batchVars, frameVars, sampVars, detmVars>>
detmRest  == <<firstVars, cropVars, mergeVars, pipeVars, validVars, logVars, confVars, batchVars, frameVars, sampVars, thrdVars>>
vars      == <<poolVars, sceneVars, capVars, laterVars>>

\* The nil error
Nil == <<>>

Max(a, b) == IF a >= b THEN a ELSE b
Min(a, b) == IF a <= b THEN a ELSE b

(***************************************************************************)
(* Bounds of the model.                                                    *)
(***************************************************************************)
NumChunks     == 3   \* chunks in the plan handed to EncodeAll
MaxWorkers    == 2   \* largest cfg.Workers tried
MaxBuffer     == 1   \* largest cfg.ChunkBuffer tried
MaxLogLines   == 3   \* most records of a done.txt tried
MaxSceneTotal == 4   \* largest total_frames tried for LoadScenes
MaxSceneLines == 3   \* most lines of a scene file tried

(***************************************************************************)
(* internal/chunk/chunk.go                                                 *)
(***************************************************************************)

\* Chunk.Frames
Frames(c) == c.End - c.Start

RECURSIVE InsertSorted(_, _)
InsertSorted(s, x) ==
    IF s = <<>> THEN <<x>>
    ELSE IF x <= Head(s) THEN <<x>> \o s
    ELSE <<Head(s)>> \o InsertSorted(Tail(s), x)

\* sort.Ints
RECURSIVE SortInts(_)
SortInts(s) ==
    IF s = <<>> THEN <<>>
    ELSE InsertSorted(SortInts(Tail(s)), Head(s))

\* EnsureZero with the prepend of frame 0 left out
EnsureZeroSkipped(frameNums) == frameNums

\* LoadScenes, "Ensure we start at frame 0"
EnsureZero(frameNums) ==
    IF Len(frameNums) = 0 \/ frameNums[1] # 0
    THEN <<0>> \o frameNums
    ELSE frameNums

\* LoadScenes, "Convert to scenes": the loop from index i on
RECURSIVE ScenesFrom(_, _, _)
ScenesFrom(frameNums, i, totalFrames) ==
    IF i > Len(frameNums) THEN <<>>
    ELSE LET start == frameNums[i]
             end   == IF i + 1 <= Len(frameNums) THEN frameNums[i + 1]
                      ELSE totalFrames
             rest  == ScenesFrom(frameNums, i + 1, totalFrames)
         IN  IF start < end
             THEN <<[StartFrame |-> start, EndFrame |-> end]>> \o rest
             ELSE rest

\* LoadScenes, after the lines of the file were parsed into frameNums
LoadScenes(frameNums, totalFrames) ==
    ScenesFrom(EnsureZero(SortInts(frameNums)), 1, totalFrames)

\* Chunkify
Chunkify(scenes) ==
    [i \in 1..Len(scenes) |->
        [Idx |-> i - 1, Start |-> scenes[i].StartFrame, End |-> scenes[i].EndFrame]]

\* ResumeInf.DoneSet
DoneSet(chunksDone) == {chunksDone[i].Idx : i \in 1..Len(chunksDone)}

RECURSIVE SumFrames(_)
\* ResumeInf.TotalEncodedFrames
SumFrames(chunksDone) ==
    IF chunksDone = <<>> THEN 0
    ELSE Head(chunksDone).Frames + SumFrames(Tail(chunksDone))

RECURSIVE SumSize(_)
\* ResumeInf.TotalEncodedSize
SumSize(chunksDone) ==
    IF chunksDone = <<>> THEN 0
    ELSE Head(chunksDone).Size + SumSize(Tail(chunksDone))

(***************************************************************************)
(* float64 arithmetic used by CapWorkers.  A non-negative number is held   *)
(* as little-endian limbs of 15 bits, so that the 53-bit significand of a  *)
(* float64 and its products stay inside the checker's integers.            *)
(***************************************************************************)
LimbBase == 2^15
SignificandBits == 53

RECURSIVE BitLen(_)
BitLen(n) == IF n = 0 THEN 0 ELSE 1 + BitLen(n \div 2)

\* limbs * u + carry
RECURSIVE MulSmall(_, _, _)
MulSmall(limbs, u, carry) ==
    IF limbs = <<>> THEN (IF carry = 0 THEN <<>> ELSE <<carry>>)
    ELSE LET p == Head(limbs) * u + carry
         IN  <<p % LimbBase>> \o MulSmall(Tail(limbs), u, p \div LimbBase)

\* limbs + add (add enters at the lowest limb)
RECURSIVE AddSmall(_, _)
AddSmall(limbs, add) ==
    IF add = 0 THEN limbs
    ELSE IF limbs = <<>> THEN <<add>>
    ELSE LET t == Head(limbs) + add
         IN  <<t % LimbBase>> \o AddSmall(Tail(limbs), t \div LimbBase)

\* number of significant bits of a limb sequence whose top limb is non-zero
LimbsBitLen(limbs) ==
    IF limbs = <<>> THEN 0
    ELSE 15 * (Len(limbs) - 1) + BitLen(limbs[Len(limbs)])

\* IEEE-754 round-to-nearest, ties-to-even, of an integer to 53 significant
\* bits (fewer than 15 bits are dropped for the operands modelled here)
RoundToSignificand(limbs) ==
    LET s == LimbsBitLen(limbs) - SignificandBits
    IN  IF s <= 0 THEN limbs
        ELSE LET low   == limbs[1] % (2^s)
                 half  == 2^(s - 1)
                 odd   == (limbs[1] \div (2^s)) % 2 = 1
                 up    == low > half \/ (low = half /\ odd)
                 trunc == <<limbs[1] - low>> \o Tail(limbs)
             IN  AddSmall(trunc, IF up THEN 2^s ELSE 0)

RECURSIVE LimbsValue(_)
LimbsValue(limbs) ==
    IF limbs = <<>> THEN 0 ELSE Head(limbs) + LimbBase * LimbsValue(Tail(limbs))

\* floor(limbs / 2^(15*k + r)) as an integer
ShiftRight(limbs, k, r) ==
    IF Len(limbs) <= k THEN 0
    ELSE LimbsValue(SubSeq(limbs, k + 1, Len(limbs))) \div (2^r)

(***************************************************************************)
(* internal/encode/permits.go.  Memory is counted in units of 512 MiB      *)
(* (MemPerWorkerSD), the size every constant of the file is a multiple of. *)
(***************************************************************************)
MemUnitBits == 29
MemPerWorker4K    == 10
MemPerWorker1080p == 4
MemPerWorkerSD    == 1

\* MemoryFraction = 0.7 as the float64 the compiler converts it to:
\* 0x3FE6666666666666 = 0x16666666666666 * 2^-53, the significand in limbs
MemoryFraction == <<26214, 19660, 6553, 179>>
MemoryFractionExp == 0 - 53

\* memoryPerWorker
memoryPerWorker(width, height) ==
    IF width >= 3840 \/ height >= 2160 THEN MemPerWorker4K
    ELSE IF width >= 1920 \/ height >= 1080 THEN MemPerWorker1080p
    ELSE MemPerWorkerSD

\* uint64(float64(available) * MemoryFraction), in whole memory units:
\* available = units * 2^29 is exact in float64, the product is
\* round53(units * significand) * 2^(MemUnitBits - 53) bytes, the conversion
\* truncates, and the integer division by memPerWorker that follows only
\* needs the whole units: floor(product * 2^-53).
UsableUnits(units) ==
    LET product == RoundToSignificand(MulSmall(MemoryFraction, units, 0))
        shift   == 0 - MemoryFractionExp
    IN  ShiftRight(product, shift \div 15, shift % 15)

\* CapWorkers; available = 0 stands for "can't determine memory"
CapWorkers(requested, width, height, available) ==
    LET memPerWorker == memoryPerWorker(width, height)
        maxByMemory  == IF available > 0
                        THEN Max(UsableUnits(available) \div memPerWorker, 1)
                        ELSE requested
    IN  IF requested > maxByMemory
        THEN <<maxByMemory, TRUE>>
        ELSE <<requested, FALSE>>

\* CalculatePermits handing out one permit too many
CalculatePermitsExtra(workers, buffer) == Max(workers + buffer, 1) + 1

\* CalculatePermits
CalculatePermits(workers, buffer) == Max(workers + buffer, 1)

(***************************************************************************)
(* The encode package's pipeline: EncodeAll, streamingWorker and           *)
(* encodeChunkStreaming.                                                   *)
(***************************************************************************)

\* The plan handed to EncodeAll: chunk i (0-based) has i+1 frames, as
\* Chunkify(LoadScenes(..)) cuts it from the boundaries 0, 1, 3, 6, ...
PlanNums   == [i \in 1..NumChunks |-> ((i - 1) * i) \div 2]
PlanTotal  == (NumChunks * (NumChunks + 1)) \div 2
PlanChunks == Chunkify(LoadScenes(PlanNums, PlanTotal))

PlanIdx == {PlanChunks[i].Idx : i \in 1..Len(PlanChunks)}

\* Frame size of the source of the run (inf.Width, inf.Height; no crop)
PoolDims == [width |-> 1280, height |-> 720]

\* Output sizes an encoder may leave on disk (stat.Size())
SizeChoices == {3}

\* The memory reading of the run: 2 GiB, in units of 512 MiB
PoolAvail == 2 * 2

\* Errors
ErrCancelled   == <<"context canceled">>
ErrChunk(idx)  == <<"chunk failed", idx>>
ErrSource(w)   == <<"failed to create video source for worker", w>>
ErrSetup(what) == <<"setup failed", what>>

\* Sequences over S of length 0..n
SeqsUpTo(S, n) == UNION {[1..k -> S] : k \in 0..n}

\* Records done.txt can hold for the plan
PlanRecords == {[Idx |-> PlanChunks[i].Idx, Frames |-> Frames(PlanChunks[i]), Size |-> 1] :
                   i \in 1..Len(PlanChunks)}

RECURSIVE SumChunkFrames(_)
\* EncodeAll: totalFrames += ch.Frames()
SumChunkFrames(cs) ==
    IF cs = <<>> THEN 0 ELSE Frames(Head(cs)) + SumChunkFrames(Tail(cs))

\* RemainingChunks without the doneSet test
RemainingChunksAll(cs, doneSet) == cs

\* EncodeAll: the loop that fills remainingChunks
RemainingChunks(cs, doneSet) == SelectSeq(cs, LAMBDA ch : ch.Idx \notin doneSet)

\* setError as a plain store: the last error wins
setErrorLastWins(cur, err) == [slot |-> err, stored |-> TRUE]

\* setError: encodeErr.CompareAndSwap(nil, &err)
setError(cur, err) ==
    IF cur = Nil THEN [slot |-> err, stored |-> TRUE]
    ELSE [slot |-> cur, stored |-> FALSE]

\* a getError that never sees the latched error
getErrorStale == Nil

\* getError
getError == encodeErr

\* What a call of setError(err) does to the slot and to its history
Latch(err) ==
    LET r == setError(encodeErr, err)
    IN  /\ encodeErr' = r.slot
        /\ latchCalls' = latchCalls + 1
        /\ latchWrites' = latchWrites + (IF r.stored THEN 1 ELSE 0)
        /\ firstErr' = IF firstErr = Nil THEN err ELSE firstErr

NoLatch == UNCHANGED <<encodeErr, latchCalls, latchWrites, firstErr>>

\* worker.Progress and chunk.Chunk zero values
NoProgress == [ChunksTotal |-> 0, ChunksComplete |-> 0, FramesTotal |-> 0,
               FramesComplete |-> 0, BytesComplete |-> 0]
NoChunk    == [Idx |-> 0 - 1, Start |-> 0, End |-> 0]

PoolIdle ==
    /\ remaining = <<>> /\ actualWorkers = 0 /\ permits = 0 /\ sem = 0
    /\ chunkChan = <<>> /\ chunkClosed = FALSE
    /\ resultChan = <<>> /\ resultClosed = FALSE
    /\ progress = NoProgress /\ encodeErr = Nil
    /\ dpc = "off" /\ di = 1 /\ wpc = <<>> /\ wch = <<>> /\ cpc = "off"
    /\ retWorkers = 0 /\ retErr = Nil
    /\ lastCb = NoProgress /\ cbCount = 0 /\ started = {} /\ succeeded = {}
    /\ lostAppends = {} /\ latchCalls = 0 /\ latchWrites = 0 /\ firstErr = Nil

CropIdle   == crPc = "off" /\ crIn = <<>> /\ crTaken = 0 /\ crCounts = <<>> /\ crOut = <<>>
MergeIdle  == /\ mgPc = "off" /\ mgN = 0 /\ mgDir = <<>> /\ mgTemp = <<>> /\ mgBatch = 0
              /\ mgStart = 0 /\ mgVideo = <<>> /\ mgConcats = <<>> /\ mgRuns = 0 /\ mgErr = ""
PipeIdle   == /\ ppPc = "off" /\ ppIdx = "idle" /\ ppCrop = "idle" /\ ppAudio = "idle"
              /\ ppHasAudio = FALSE /\ ppMany = FALSE /\ ppWorkDir = "absent" /\ ppOut = FALSE
              /\ ppErr = <<>> /\ ppRet = <<>> /\ ppLog = <<>>
ValidIdle  == /\ vlPc = "off" /\ vlOpts = <<>> /\ vlRes = <<>> /\ vlDiff = 0 /\ vlErr = <<>>
              /\ vlPassed = FALSE /\ vlChecks = <<>> /\ vlIn = <<>>
LogIdle    == /\ rlExists = FALSE /\ rlFile = <<>> /\ rlAppended = <<>> /\ rlEncoded = {}
              /\ rlTorn = FALSE /\ rlFailed = {} /\ rlLoaded = <<>>
ConfIdle   == /\ cfPc = "off" /\ cfGiven = <<>> /\ cfCfg = <<>> /\ cfErr = <<>> /\ cfWork = FALSE
BatchIdle  == /\ bvPc = "off" /\ bvN = 0 /\ bvIdx = 0 /\ bvCancelled = FALSE /\ bvResults = <<>>
              /\ bvSummary = <<>> /\ bvLog = <<>>
FrameIdle  == /\ fePc = "off" /\ feFrames = 0 /\ feI = 0 /\ feCancelled = FALSE /\ feLatched = FALSE
              /\ feRead = 0 /\ feWritten = 0 /\ feClosed = FALSE /\ feWaited = FALSE
              /\ feResult = <<>> /\ feAtCancel = <<>> /\ feAtLatch = <<>>
SampIdle   == spPc = "off" /\ spIn = <<>> /\ spI = 0 /\ spWaiting = 0 /\ spAcquired = 0 /\ spDetecting = 0 /\ spHolding = 0 /\ spReleased = 0 /\ spWg = 0 /\ spSem = 0 /\ spCounts = <<>> /\ spYield = <<>> /\ spOut = <<>>
ThrdIdle   == thPc = "off" /\ thIn = <<>> /\ thOut = 0
DetmIdle   == dtPc = "idle" /\ dtLines = <<>> /\ dtLeft = {} /\ dtCounts = <<>> /\ dtOut = <<>>
LaterIdle  == CropIdle /\ MergeIdle /\ PipeIdle /\ ValidIdle /\ LogIdle /\ ConfIdle /\ BatchIdle /\ FrameIdle /\ SampIdle /\ ThrdIdle /\ DetmIdle
ScenesIdle == scPc = "off" /\ scTotal = 0 /\ scNums = <<>> /\ scScenes = <<>> /\ scChunks = <<>>
CapIdle    == cwPc = "off" /\ cwIn = <<>> /\ cwOut = <<>>

\* A done.txt as earlier runs over the same plan leave it: one record for
\* each chunk of D
LogOf(D) ==
    [i \in 1..Cardinality(D) |->
        CHOOSE r \in PlanRecords :
            r.Idx \in D /\ Cardinality({d \in D : d < r.Idx}) = i - 1]

\* The state in which EncodeAll is called
InitPool(workers, buffers) ==
    /\ chunks = PlanChunks
    /\ cfgWorkers \in workers
    /\ cfgBuffer \in buffers
    /\ availUnits = PoolAvail
    /\ cancelled = FALSE
    /\ pc = "start"
    /\ PoolIdle

\* EncodeAll returns early: EnsureEncodeDir or GetResume failed
EncodeAllSetupFails ==
    /\ pc = "start"
    /\ \E what \in {"encode directory", "resume info"} :
          /\ pc' = "returned"
          /\ retWorkers' = 0
          /\ retErr' = ErrSetup(what)
    /\ UNCHANGED <<envVars, remaining, actualWorkers, permits, sem, chunkChan, chunkClosed,
                   resultChan, resultClosed, progress, encodeErr, dpc, di, wpc, wch, cpc,
                   histVars, sceneVars, capVars, laterVars>>

\* one goroutine more than actualWorkers
WorkerIdsOneMore(workers) == 1..(workers + 1)

\* for i := 0; i < actualWorkers; i++ { go streamingWorker(...) }
WorkerIds(workers) == 1..workers

\* EncodeAll up to the start of its goroutines
EncodeAllStart ==
    /\ pc = "start"
    /\ LET resume  == doneTxt
           doneSet == DoneSet(resume)
           rem     == RemainingChunks(chunks, doneSet)
           workers == CapWorkers(cfgWorkers, PoolDims.width, PoolDims.height, availUnits)[1]
           p       == CalculatePermits(workers, cfgBuffer)
       IN  /\ remaining' = rem
           /\ IF Len(rem) = 0
              THEN \* All chunks already done
                   /\ pc' = "returned"
                   /\ retWorkers' = cfgWorkers
                   /\ retErr' = Nil
                   /\ UNCHANGED <<actualWorkers, permits, sem, progress,
                                  dpc, wpc, wch, cpc>>
              ELSE \/ \* ffms.GetDecodeStrat fails
                      /\ pc' = "returned"
                      /\ retWorkers' = 0
                      /\ retErr' = ErrSetup("decode strategy")
                      /\ UNCHANGED <<actualWorkers, permits, sem, progress,
                                     dpc, wpc, wch, cpc>>
                   \/ /\ pc' = "wait"
                      /\ actualWorkers' = workers
                      /\ permits' = p
                      /\ sem' = p
                      /\ progress' = [ChunksTotal    |-> Len(chunks),
                                      ChunksComplete |-> Len(chunks) - Len(rem),
                                      FramesTotal    |-> SumChunkFrames(chunks),
                                      FramesComplete |-> SumFrames(resume),
                                      BytesComplete  |-> SumSize(resume)]
                      /\ wpc' = [w \in WorkerIds(workers) |-> "init"]
                      /\ wch' = [w \in WorkerIds(workers) |-> NoChunk]
                      /\ cpc' = "recv"
                      /\ dpc' = "check"
                      /\ UNCHANGED <<retWorkers, retErr>>
    /\ UNCHANGED <<envVars, chunkChan, chunkClosed, resultChan, resultClosed, encodeErr,
                   di, histVars, sceneVars, capVars, laterVars>>

\* ctx is cancelled (timeout, interrupt)
Cancel ==
    /\ pc # "returned"
    /\ ~cancelled
    /\ cancelled' = TRUE
    /\ UNCHANGED <<chunks, cfgWorkers, cfgBuffer, availUnits, doneTxt, ivf,
                   runVars, histVars, sceneVars, capVars, laterVars>>

(***************************************************************************)
(* The chunk dispatcher goroutine                                          *)
(***************************************************************************)

\* the dispatcher returning without closing chunkChan
DispatcherReturnsNoClose ==
    /\ UNCHANGED chunkClosed
    /\ dpc' = "done"

\* defer close(chunkChan); return
DispatcherReturns ==
    /\ chunkClosed' = TRUE
    /\ dpc' = "done"

\* Loop head: range over remainingChunks, the ctx.Done() poll, the getError poll
DispatchCheck ==
    /\ dpc = "check"
    /\ IF di > Len(remaining) \/ cancelled \/ getError # Nil
       THEN DispatcherReturns
       ELSE dpc' = "acquire" /\ UNCHANGED chunkClosed
    /\ UNCHANGED <<envVars, pc, remaining, actualWorkers, permits, sem, chunkChan,
                   resultChan, resultClosed, progress, encodeErr, di, wpc, wch, cpc,
                   retWorkers, retErr, histVars, sceneVars, capVars, laterVars>>

\* select { case <-sem.Chan(): ; case <-ctx.Done(): return }
DispatchAcquire ==
    /\ dpc = "acquire"
    /\ \/ /\ sem > 0
          /\ sem' = sem - 1
          /\ dpc' = "send"
          /\ UNCHANGED chunkClosed
       \/ /\ cancelled
          /\ DispatcherReturns
          /\ UNCHANGED sem
    /\ UNCHANGED <<envVars, pc, remaining, actualWorkers, permits, chunkChan,
                   resultChan, resultClosed, progress, encodeErr, di, wpc, wch, cpc,
                   retWorkers, retErr, histVars, sceneVars, capVars, laterVars>>

\* select { case chunkChan <- ch: ; case <-ctx.Done(): sem.Release(); return }
DispatchSend ==
    /\ dpc = "send"
    /\ \/ /\ Len(chunkChan) < permits
          /\ chunkChan' = Append(chunkChan, remaining[di])
          /\ di' = di + 1
          /\ dpc' = "check"
          /\ UNCHANGED <<sem, chunkClosed>>
       \/ /\ cancelled
          /\ sem' = sem + 1
          /\ DispatcherReturns
          /\ UNCHANGED <<chunkChan, di>>
    /\ UNCHANGED <<envVars, pc, remaining, actualWorkers, permits,
                   resultChan, resultClosed, progress, encodeErr, wpc, wch, cpc,
                   retWorkers, retErr, histVars, sceneVars, capVars, laterVars>>

(***************************************************************************)
(* streamingWorker and encodeChunkStreaming                                *)
(***************************************************************************)

\* ResultOk reporting the chunk's end frame as its frame count
ResultOkEndFrame(ch, size) == [ChunkIdx |-> ch.Idx, Frames |-> ch.End, Size |-> size, Error |-> Nil]

\* worker.EncodeResult values
ResultOk(ch, size) == [ChunkIdx |-> ch.Idx, Frames |-> Frames(ch), Size |-> size, Error |-> Nil]
ResultErr(ch, err) == [ChunkIdx |-> ch.Idx, Frames |-> 0, Size |-> 0, Error |-> err]

\* ffms.ThrVidSrc(idx, 1) and the error return of streamingWorker
WorkerInit(w) ==
    /\ w \in DOMAIN wpc
    /\ wpc[w] = "init"
    /\ \/ /\ wpc' = [wpc EXCEPT ![w] = "recv"]
          /\ NoLatch
       \/ /\ Latch(ErrSource(w))
          /\ wpc' = [wpc EXCEPT ![w] = "drain"]
    /\ UNCHANGED <<envVars, pc, remaining, actualWorkers, permits, sem, chunkChan,
                   chunkClosed, resultChan, resultClosed, progress, dpc, di, wch, cpc,
                   retWorkers, retErr, lastCb, cbCount, started, succeeded, logStart,
                   lostAppends, sceneVars, capVars, laterVars>>

\* a drain that takes the chunks from the queue and keeps their permits
DrainWithoutRelease(s) == s

\* streamingWorker without a video source: sem.Release() per drained chunk
ReleaseDrained(s) == s + 1

\* for range chunkChan { sem.Release() }; return
WorkerDrain(w) ==
    /\ w \in DOMAIN wpc
    /\ wpc[w] = "drain"
    /\ IF chunkChan # <<>>
       THEN /\ chunkChan' = Tail(chunkChan)
            /\ sem' = ReleaseDrained(sem)
            /\ UNCHANGED wpc
       ELSE /\ chunkClosed
            /\ wpc' = [wpc EXCEPT ![w] = "done"]
            /\ UNCHANGED <<chunkChan, sem>>
    /\ UNCHANGED <<envVars, pc, remaining, actualWorkers, permits,
                   chunkClosed, resultChan, resultClosed, progress, encodeErr, dpc, di,
                   wch, cpc, retWorkers, retErr, histVars, sceneVars, capVars, laterVars>>

\* for ch := range chunkChan: the receive, the ctx.Done() poll, the getError
\* poll, and encodeChunkStreaming up to cmd.Start()
WorkerReceive(w) ==
    /\ w \in DOMAIN wpc
    /\ wpc[w] = "recv"
    /\ IF chunkChan = <<>>
       THEN /\ chunkClosed
            /\ wpc' = [wpc EXCEPT ![w] = "done"]
            /\ UNCHANGED <<chunkChan, sem, resultChan, wch, started>>
       ELSE LET ch == Head(chunkChan)
            IN  /\ chunkChan' = Tail(chunkChan)
                /\ IF cancelled
                   THEN /\ sem' = sem + 1
                        /\ resultChan' = Append(resultChan, ResultErr(ch, ErrCancelled))
                        /\ UNCHANGED <<wpc, wch, started>>
                   ELSE IF getError # Nil
                   THEN /\ sem' = sem + 1
                        /\ UNCHANGED <<resultChan, wpc, wch, started>>
                   ELSE \/ \* cmd.StdinPipe() or cmd.Start() fails
                           /\ sem' = sem + 1
                           /\ resultChan' = Append(resultChan, ResultErr(ch, ErrChunk(ch.Idx)))
                           /\ UNCHANGED <<wpc, wch, started>>
                        \/ \* the encoder process runs
                           /\ wpc' = [wpc EXCEPT ![w] = "encode"]
                           /\ wch' = [wch EXCEPT ![w] = ch]
                           /\ started' = started \cup {ch.Idx}
                           /\ UNCHANGED <<sem, resultChan>>
    /\ UNCHANGED <<envVars, pc, remaining, actualWorkers, permits,
                   chunkClosed, resultClosed, progress, encodeErr, dpc, di, cpc,
                   retWorkers, retErr, lastCb, cbCount, succeeded, logStart,
                   lostAppends, latchCalls, latchWrites, firstErr, sceneVars, capVars, laterVars>>

\* The outcomes of encodeChunkStreaming once the encoder runs
EncodeOutcomes(ch) ==
    {ResultOk(ch, size) : size \in SizeChoices}
        \cup {ResultErr(ch, ErrChunk(ch.Idx))}
        \cup (IF cancelled THEN {ResultErr(ch, ErrCancelled)} ELSE {})

\* the worker keeping the permit for the collector to release
ReleaseAtCollector(s) == s

\* streamingWorker: sem.Release() after encodeChunkStreaming has returned
ReleaseAfterEncode(s) == s + 1

\* encodeChunkStreaming from the frame loop to its return, then
\* sem.Release() and resultChan <- result
WorkerEncode(w) ==
    /\ w \in DOMAIN wpc
    /\ wpc[w] = "encode"
    /\ \E result \in EncodeOutcomes(wch[w]) :
          /\ resultChan' = Append(resultChan, result)
          /\ IF result.Error = Nil
             THEN /\ ivf' = ivf \cup {result.ChunkIdx}
                  /\ succeeded' = succeeded \cup {result.ChunkIdx}
             ELSE UNCHANGED <<ivf, succeeded>>
    /\ sem' = ReleaseAfterEncode(sem)
    /\ wpc' = [wpc EXCEPT ![w] = "recv"]
    /\ wch' = [wch EXCEPT ![w] = NoChunk]
    /\ UNCHANGED <<chunks, cfgWorkers, cfgBuffer, availUnits, doneTxt, cancelled,
                   pc, remaining, actualWorkers, permits, chunkChan,
                   chunkClosed, resultClosed, progress, encodeErr, dpc, di, cpc,
                   retWorkers, retErr, lastCb, cbCount, started, logStart,
                   lostAppends, latchCalls, latchWrites, firstErr, sceneVars, capVars, laterVars>>

(***************************************************************************)
(* The result collector goroutine                                          *)
(***************************************************************************)

\* ProgressAfter assigning the frame count instead of adding it
ProgressAfterAssign(p, result) ==
    [p EXCEPT !.ChunksComplete = @ + 1,
              !.FramesComplete = result.Frames,
              !.BytesComplete  = @ + result.Size]

\* The progress update under progressMu
ProgressAfter(p, result) ==
    [p EXCEPT !.ChunksComplete = @ + 1,
              !.FramesComplete = @ + result.Frames,
              !.BytesComplete  = @ + result.Size]

\* chunk.AppendDone: the line written for a record
AppendDone(log, comp) == Append(log, comp)

\* if result.Error != nil { setError(result.Error); continue }
CollectError ==
    /\ cpc = "recv"
    /\ resultChan # <<>>
    /\ Head(resultChan).Error # Nil
    /\ resultChan' = Tail(resultChan)
    /\ Latch(Head(resultChan).Error)
    /\ UNCHANGED <<envVars, pc, remaining, actualWorkers, permits, sem, chunkChan,
                   chunkClosed, resultClosed, progress, dpc, di, wpc, wch, cpc,
                   retWorkers, retErr, lastCb, cbCount, started, succeeded, logStart,
                   lostAppends, sceneVars, capVars, laterVars>>

\* A success result: progress, AppendDone (its error is ignored), progressCb
CollectSuccess ==
    /\ cpc = "recv"
    /\ resultChan # <<>>
    /\ Head(resultChan).Error = Nil
    /\ LET result == Head(resultChan)
           comp   == [Idx |-> result.ChunkIdx, Frames |-> result.Frames, Size |-> result.Size]
       IN  /\ resultChan' = Tail(resultChan)
           /\ progress' = ProgressAfter(progress, result)
           /\ \/ /\ doneTxt' = AppendDone(doneTxt, comp)
                 /\ UNCHANGED lostAppends
              \/ \* os.OpenFile or Fprintf fails: nothing is written
                 /\ lostAppends' = lostAppends \cup {result.ChunkIdx}
                 /\ UNCHANGED doneTxt
           /\ lastCb' = progress'
           /\ cbCount' = cbCount + 1
    /\ UNCHANGED <<chunks, cfgWorkers, cfgBuffer, availUnits, ivf, cancelled,
                   pc, remaining, actualWorkers, permits, sem, chunkChan,
                   chunkClosed, resultClosed, encodeErr, dpc, di, wpc, wch, cpc,
                   retWorkers, retErr, started, succeeded, logStart, latchCalls,
                   latchWrites, firstErr, sceneVars, capVars, laterVars>>

\* range resultChan ends: the channel is closed and empty
CollectReturns ==
    /\ cpc = "recv"
    /\ resultChan = <<>>
    /\ resultClosed
    /\ cpc' = "done"
    /\ UNCHANGED <<envVars, pc, remaining, actualWorkers, permits, sem, chunkChan,
                   chunkClosed, resultChan, resultClosed, progress, encodeErr, dpc, di,
                   wpc, wch, retWorkers, retErr, histVars, sceneVars, capVars, laterVars>>

(***************************************************************************)
(* EncodeAll: the joins and the return                                     *)
(***************************************************************************)

\* workerWg.Wait(); close(resultChan)
EncodeAllWorkersJoined ==
    /\ pc = "wait"
    /\ \A w \in DOMAIN wpc : wpc[w] = "done"
    /\ resultClosed' = TRUE
    /\ pc' = "collect"
    /\ UNCHANGED <<envVars, remaining, actualWorkers, permits, sem, chunkChan,
                   chunkClosed, resultChan, progress, encodeErr, dpc, di,
                   wpc, wch, cpc, retWorkers, retErr, histVars, sceneVars, capVars, laterVars>>

\* collectorWg.Wait(); return actualWorkers, getError()
EncodeAllReturn ==
    /\ pc = "collect"
    /\ cpc = "done"
    /\ pc' = "returned"
    /\ retWorkers' = actualWorkers
    /\ retErr' = getError
    /\ UNCHANGED <<envVars, remaining, actualWorkers, permits, sem, chunkChan,
                   chunkClosed, resultChan, resultClosed, progress, encodeErr, dpc, di,
                   wpc, wch, cpc, histVars, sceneVars, capVars, laterVars>>

\* A run that starts fresh or resumes what earlier runs completed
Init ==
    /\ InitPool(1..MaxWorkers, 0..MaxBuffer)
    /\ \E D \in SUBSET PlanIdx : doneTxt = LogOf(D) /\ ivf = D
    /\ logStart = Len(doneTxt)
    /\ ScenesIdle
    /\ CapIdle
    /\ LaterIdle

\* A run over any done.txt GetResume accepts and any encode directory
InitResume ==
    /\ InitPool({1}, {0})
    /\ doneTxt \in SeqsUpTo(PlanRecords, MaxLogLines)
    /\ ivf \in SUBSET PlanIdx
    /\ logStart = Len(doneTxt)
    /\ ScenesIdle
    /\ CapIdle
    /\ LaterIdle

Next ==
    \/ EncodeAllSetupFails
    \/ EncodeAllStart
    \/ Cancel
    \/ DispatchCheck
    \/ DispatchAcquire
    \/ DispatchSend
    \/ \E w \in 1..MaxWorkers : WorkerInit(w)
    \/ \E w \in 1..MaxWorkers : WorkerDrain(w)
    \/ \E w \in 1..MaxWorkers : WorkerReceive(w)
    \/ \E w \in 1..MaxWorkers : WorkerEncode(w)
    \/ CollectError
    \/ CollectSuccess
    \/ CollectReturns
    \/ EncodeAllWorkersJoined
    \/ EncodeAllReturn

Spec == Init /\ [][Next]_vars

SpecResume == InitResume /\ [][Next]_vars

\* The goroutines of EncodeAll under the Go scheduler: a goroutine that can
\* take a step eventually takes one, and every encoder process and frame
\* decode comes to an end.  Cancellation and failures may or may not happen.
DispatcherStep == DispatchCheck \/ DispatchAcquire \/ DispatchSend
WorkerStep(w)  == WorkerInit(w) \/ WorkerDrain(w) \/ WorkerReceive(w) \/ WorkerEncode(w)
CollectorStep  == CollectError \/ CollectSuccess \/ CollectReturns
EncodeAllStep  == EncodeAllSetupFails \/ EncodeAllStart \/ EncodeAllWorkersJoined \/ EncodeAllReturn

Fairness ==
    /\ WF_vars(EncodeAllStep)
    /\ WF_vars(DispatcherStep)
    /\ \A w \in 1..MaxWorkers : WF_vars(WorkerStep(w))
    /\ WF_vars(CollectorStep)

SpecFair == Init /\ [][Next]_vars /\ Fairness

(***************************************************************************)
(* chunk.LoadScenes and chunk.Chunkify on their own, as ProcessChunked     *)
(* calls them: over every scene file of boundaries inside [0, total).      *)
(***************************************************************************)

\* EncodeAll is not running
PoolOff ==
    /\ chunks = <<>> /\ cfgWorkers = 0 /\ cfgBuffer = 0 /\ availUnits = 0
    /\ doneTxt = <<>> /\ ivf = {} /\ cancelled = FALSE /\ pc = "off"
    /\ logStart = 0
    /\ PoolIdle

InitScenes ==
    /\ scPc = "load"
    /\ scTotal \in 1..MaxSceneTotal
    /\ scNums \in SeqsUpTo(0..(scTotal - 1), MaxSceneLines)
    /\ scScenes = <<>>
    /\ scChunks = <<>>
    /\ PoolOff
    /\ CapIdle
    /\ LaterIdle

\* scenes, err := chunk.LoadScenes(sceneFile, vidInf.Frames)
ScenesLoad ==
    /\ scPc = "load"
    /\ scScenes' = LoadScenes(scNums, scTotal)
    /\ scPc' = "chunkify"
    /\ UNCHANGED <<scTotal, scNums, scChunks, poolVars, capVars, laterVars>>

\* chunks := chunk.Chunkify(scenes)
ScenesChunkify ==
    /\ scPc = "chunkify"
    /\ scChunks' = Chunkify(scScenes)
    /\ scPc' = "done"
    /\ UNCHANGED <<scTotal, scNums, scScenes, poolVars, capVars, laterVars>>

NextScenes == ScenesLoad \/ ScenesChunkify

SpecScenes == InitScenes /\ [][NextScenes]_vars

(***************************************************************************)
(* encode.CapWorkers on its own: every request, frame size and memory      *)
(* reading (in units of 512 MiB) within the bounds.                        *)
(***************************************************************************)
MaxRequested  == 64   \* largest requested worker count tried
MaxAvailUnits == 96   \* largest memory reading tried: 48 GiB

\* Frame sizes tried: SD, HD, UHD, and portrait frames that reach a class by
\* their height only
DimChoices == {<<1280, 720>>, <<1920, 1080>>, <<3840, 2160>>,
               <<1080, 1920>>, <<1216, 2160>>}

InitCap ==
    /\ cwPc = "call"
    /\ cwIn \in [requested : 1..MaxRequested, dims : DimChoices,
                 available : 1..MaxAvailUnits]
    /\ cwOut = <<>>
    /\ PoolOff
    /\ ScenesIdle
    /\ LaterIdle

\* actualWorkers, wasCapped := encode.CapWorkers(cfg.Workers, width, height)
CapWorkersCall ==
    /\ cwPc = "call"
    /\ cwOut' = CapWorkers(cwIn.requested, cwIn.dims[1], cwIn.dims[2], cwIn.available)
    /\ cwPc' = "done"
    /\ UNCHANGED <<cwIn, poolVars, sceneVars, laterVars>>

NextCap == CapWorkersCall

SpecCap == InitCap /\ [][NextCap]_vars

(***************************************************************************)
(* internal/processing/crop.go: DetectCrop.  A rectangle is the tuple      *)
(* <<w, h, x, y>> that ffmpeg's cropdetect prints as "w:h:x:y"; a sample   *)
(* that yields no rectangle returns "" and is not counted.                 *)
(***************************************************************************)
MaxCropSamples == 6   \* sample points (141 in the code)

\* the source frame sizes and the rectangles cropdetect may report
CropSources == {<<8, 6>>, <<8, 4>>}
CropRects   == {<<8, 6, 0, 0>>, <<8, 4, 0, 1>>, <<6, 6, 1, 0>>}

\* isEffectiveCrop
isEffectiveCrop(crop, sourceWidth, sourceHeight) ==
    crop[1] # sourceWidth \/ crop[2] # sourceHeight

LimbAt(limbs, i) == IF i <= Len(limbs) THEN limbs[i] ELSE 0

\* x > y for two limb sequences, compared from the top limb down
RECURSIVE LimbsGreaterFrom(_, _, _)
LimbsGreaterFrom(x, y, i) ==
    IF i = 0 THEN FALSE
    ELSE IF LimbAt(x, i) # LimbAt(y, i) THEN LimbAt(x, i) > LimbAt(y, i)
    ELSE LimbsGreaterFrom(x, y, i - 1)

LimbsGreater(x, y) == LimbsGreaterFrom(x, y, Max(Len(x), Len(y)))

\* The constant 0.8 is the float64 0x1.999999999999Ap-1 = s * 2^-53 with
\* s = 0x1999999999999A (even).  The correctly rounded quotient
\* float64(count)/float64(total) exceeds it exactly when the true quotient
\* exceeds the midpoint to the next float64, (2s + 1) * 2^-54 (a tie rounds
\* to the even s): count * 2^54 > total * (2s + 1).
DominantMidpoint == <<13109, 26214, 19660, 409>>
DominantScale    == <<0, 0, 0, 512>>

\* ratio > 0.8 decided on the exact quotient with >= instead of >
IsDominantAtLeast(count, total) == 5 * count >= 4 * total

\* ratio := float64(mostCommon.count) / float64(totalSamples); ratio > 0.8
IsDominant(count, total) ==
    LimbsGreater(MulSmall(DominantScale, count, 0),
                 MulSmall(DominantMidpoint, total, 0))

\* the keys of cropCounts
CropSeen(counts) == {r \in DOMAIN counts : counts[r] > 0}

RECURSIVE CropTotal(_, _)
\* totalSamples: the sum of the counts over the rectangles in S
CropTotal(counts, S) ==
    IF S = {} THEN 0
    ELSE LET r == CHOOSE x \in S : TRUE
         IN  counts[r] + CropTotal(counts, S \ {r})

\* what sorted[0] can be after sort.Slice by descending count: map
\* iteration order is random and the sort is not stable, so any rectangle
\* of maximal count
MostCommon(counts) ==
    {r \in CropSeen(counts) : \A q \in CropSeen(counts) : counts[q] <= counts[r]}

NoCrop       == [CropFilter |-> <<>>, Required |-> FALSE, MultipleRatios |-> FALSE]
CropTo(crop) == [CropFilter |-> crop, Required |-> TRUE, MultipleRatios |-> FALSE]
\* the ambiguous result returned without its flag
CropMultipleUnflagged == [CropFilter |-> <<>>, Required |-> FALSE, MultipleRatios |-> FALSE]

\* return CropResult{Required: false, MultipleRatios: true, ...}
CropMultiple == [CropFilter |-> <<>>, Required |-> FALSE, MultipleRatios |-> TRUE]

\* the results DetectCrop can return once every sample has finished
DetectCropResults(counts, width, height) ==
    LET seen == CropSeen(counts)
    IN  IF seen = {} THEN {NoCrop}
        ELSE IF Cardinality(seen) = 1
        THEN {IF isEffectiveCrop(r, width, height) THEN CropTo(r) ELSE NoCrop : r \in seen}
        ELSE {IF IsDominant(counts[r], CropTotal(counts, seen))
              THEN (IF isEffectiveCrop(r, width, height) THEN CropTo(r) ELSE NoCrop)
              ELSE CropMultiple : r \in MostCommon(counts)}

PoolScenesCapOff == PoolOff /\ ScenesIdle /\ CapIdle

InitCrop ==
    /\ PoolScenesCapOff
    /\ DetmIdle
    /\ ThrdIdle
    /\ SampIdle
    /\ FrameIdle
    /\ BatchIdle
    /\ MergeIdle
    /\ PipeIdle
    /\ ValidIdle
    /\ LogIdle
    /\ ConfIdle
    /\ crPc = "call"
    /\ \E d \in BOOLEAN, src \in CropSources :
          crIn = [disableCrop |-> d, width |-> src[1], height |-> src[2]]
    /\ crTaken = 0
    /\ crCounts = [r \in CropRects |-> 0]
    /\ crOut = <<>>

\* if disableCrop { return CropResult{Required: false} }
CropSkipped ==
    /\ crPc = "call"
    /\ crIn.disableCrop
    /\ crPc' = "returned"
    /\ crOut' = NoCrop
    /\ UNCHANGED <<crIn, crTaken, crCounts, cropRest>>

\* the sample goroutines are started
CropStartSampling ==
    /\ crPc = "call"
    /\ ~crIn.disableCrop
    /\ crPc' = "sampling"
    /\ UNCHANGED <<crIn, crTaken, crCounts, crOut, cropRest>>

\* one sample goroutine finishes: sampleCropAtPosition returned a rectangle,
\* counted under the mutex, or ""
CropSample ==
    /\ crPc = "sampling"
    /\ crTaken < MaxCropSamples
    /\ crTaken' = crTaken + 1
    /\ \/ \E r \in CropRects : crCounts' = [crCounts EXCEPT ![r] = @ + 1]
       \/ UNCHANGED crCounts
    /\ UNCHANGED <<crPc, crIn, crOut, cropRest>>

\* wg.Wait() has returned: analyse cropCounts
CropDecide ==
    /\ crPc = "sampling"
    /\ crTaken = MaxCropSamples
    /\ crOut' \in DetectCropResults(crCounts, crIn.width, crIn.height)
    /\ crPc' = "returned"
    /\ UNCHANGED <<crIn, crTaken, crCounts, cropRest>>

NextCrop ==
    \/ CropSkipped
    \/ CropStartSampling
    \/ CropSample
    \/ CropDecide

SpecCrop == InitCrop /\ [][NextCrop]_vars

(***************************************************************************)
(* internal/encoder/encoder.go (package chunk): MergeBatched, MergeOutput  *)
(* and writeConcatFile, called by ProcessChunked after EncodeAll returned  *)
(* nil.  A file name is the sequence of the character codes of its stem;   *)
(* a file's content is the sequence of chunk indices whose bitstream it    *)
(* holds, and ffmpeg's concat demuxer writes the contents of the listed    *)
(* files one after the other.                                              *)
(***************************************************************************)
batchSize == 500

MaxSmallMerge  == 20     \* every chunk count 1..MaxSmallMerge is tried
MaxMergeChunks == 1200   \* the largest chunk count tried

\* the chunk counts tried: the small ones, those around one and two full
\* batches, and the largest
MergeCounts ==
    (1..MaxSmallMerge)
        \cup {batchSize - 1, batchSize, batchSize + 1}
        \cup {2 * batchSize, 2 * batchSize + 1, MaxMergeChunks}

\* the decimal digits of n as character codes, most significant first
RECURSIVE Digits(_)
Digits(n) == IF n < 10 THEN <<48 + n>> ELSE Digits(n \div 10) \o <<48 + (n % 10)>>

\* fmt.Sprintf("%04d", n)
Pad4(n) ==
    LET d == Digits(n)
    IN  [i \in 1..(4 - Len(d)) |-> 48] \o d

\* IVFPath with the index printed by %d
IVFPathUnpadded(chunkIdx) == Digits(chunkIdx)

\* IVFPath: <workDir>/encode/%04d.ivf
IVFPath(chunkIdx) == Pad4(chunkIdx)

\* the chunk whose bitstream the encoder wrote to the file of this name
RECURSIVE ChunkOfName(_)
ChunkOfName(name) ==
    IF name = <<>> THEN 0
    ELSE 10 * ChunkOfName(SubSeq(name, 1, Len(name) - 1)) + (name[Len(name)] - 48)

\* <tempDir>/batch_%04d.ivf
BatchPath(b) == <<98, 97, 116, 99, 104, 95>> \o Pad4(b)

\* <encodeDir>/merged.ivf
MergedPath == <<109, 101, 114, 103, 101, 100>>

RECURSIVE SortStringsAt(_, _)
RECURSIVE SortByCode(_, _, _)
\* the names of S, which agree before position pos, in string order
SortStringsAt(S, pos) ==
    IF S = {} THEN <<>>
    ELSE IF Cardinality(S) = 1 THEN <<CHOOSE s \in S : TRUE>>
    ELSE LET ended == {s \in S : Len(s) < pos}
             rest  == S \ ended
         IN  SortStringsAt(ended, pos) \o SortByCode(rest, pos, {s[pos] : s \in rest})

\* the names of S grouped by their character at pos, smallest code first
SortByCode(S, pos, codes) ==
    IF codes = {} THEN <<>>
    ELSE LET c == CHOOSE c \in codes : \A d \in codes : c <= d
         IN  SortStringsAt({s \in S : s[pos] = c}, pos + 1)
                 \o SortByCode(S, pos, codes \ {c})

\* filepath.Glob(encodeDir/*.ivf): the names of the directory in string order
Glob(dir) == SortStringsAt(DOMAIN dir, 1)

\* what ffmpeg -f concat writes for the list paths[lo..hi] of files of dir
RECURSIVE ConcatContents(_, _, _, _)
ConcatContents(dir, paths, lo, hi) ==
    IF lo > hi THEN <<>>
    ELSE IF lo = hi THEN dir[paths[lo]]
    ELSE LET mid == (lo + hi) \div 2
         IN  ConcatContents(dir, paths, lo, mid) \o ConcatContents(dir, paths, mid + 1, hi)

\* ffmpeg can open every file of the list
AllExist(dir, paths) == \A k \in 1..Len(paths) : paths[k] \in DOMAIN dir

\* temp_merge removed when MergeBatched returns an error
TempRemovedOnFailure(temp) == <<>>

\* temp_merge when MergeBatched returns an error: nothing removes it
TempAfterFailure(temp) == temp

\* the concat list written by writeConcatFile: the paths in the given order
writeConcatFile(paths) == paths

InitMerge ==
    /\ PoolScenesCapOff
    /\ DetmIdle
    /\ ThrdIdle
    /\ SampIdle
    /\ FrameIdle
    /\ BatchIdle
    /\ CropIdle
    /\ PipeIdle
    /\ ValidIdle
    /\ LogIdle
    /\ ConfIdle
    /\ mgPc = "merge"
    /\ mgN \in MergeCounts
    /\ mgDir = [n \in {IVFPath(i) : i \in 0..(mgN - 1)} |-> <<ChunkOfName(n)>>]
    /\ mgTemp = <<>>
    /\ mgBatch = 0
    /\ mgStart = 0
    /\ mgVideo = <<>>
    /\ mgConcats = <<>>
    /\ mgRuns = 0
    /\ mgErr = ""

\* ProcessChunked: if len(chunks) > 500 { MergeBatched } and MergeBatched's
\* os.MkdirAll(tempDir)
MergeBegin ==
    /\ mgPc = "merge"
    /\ \/ /\ mgN > batchSize
          /\ \/ mgPc' = "batch" /\ mgErr' = mgErr
             \/ mgPc' = "failed" /\ mgErr' = "failed to create temp merge dir"
       \/ /\ mgN <= batchSize
          /\ mgPc' = "output"
          /\ mgErr' = mgErr
    /\ UNCHANGED <<mgN, mgDir, mgTemp, mgBatch, mgStart, mgVideo, mgConcats, mgRuns, mergeRest>>

\* one turn of MergeBatched's batch loop
MergeBatchStep ==
    /\ mgPc = "batch"
    /\ mgStart < mgN
    /\ LET end        == IF mgStart + batchSize > mgN THEN mgN ELSE mgStart + batchSize
           batchPaths == [k \in 1..(end - mgStart) |-> IVFPath(mgStart + k - 1)]
           list       == writeConcatFile(batchPaths)
       IN  \/ /\ AllExist(mgDir, list) = TRUE
              /\ mgTemp' = [n \in DOMAIN mgTemp \cup {BatchPath(mgBatch)} |->
                               IF n = BatchPath(mgBatch)
                               THEN ConcatContents(mgDir, list, 1, Len(list))
                               ELSE mgTemp[n]]
              /\ mgConcats' = Append(mgConcats,
                                 [kind |-> "batch", first |-> mgStart, count |-> Len(list),
                                  inputs |-> list, out |-> BatchPath(mgBatch)])
              /\ mgBatch' = mgBatch + 1
              /\ mgStart' = mgStart + batchSize
              /\ mgPc' = IF mgStart + batchSize < mgN THEN "batch" ELSE "final"
              /\ mgErr' = mgErr
           \/ \* writeConcatFile or ffmpeg failed
              /\ mgPc' = "failed"
              /\ mgErr' \in {"failed to create batch concat file", "batch merge failed"}
              /\ mgTemp' = TempAfterFailure(mgTemp)
              /\ UNCHANGED <<mgConcats, mgBatch, mgStart>>
    /\ UNCHANGED <<mgN, mgDir, mgVideo, mgRuns, mergeRest>>

\* MergeBatched after the loop: the final concat of the batch outputs, the
\* removal of the chunk files, the rename to 0000.ivf and the removal of
\* temp_merge
MergeBatchedFinal ==
    /\ mgPc = "final"
    /\ LET finalBatchPaths == [i \in 1..mgBatch |-> BatchPath(i - 1)]
           list   == writeConcatFile(finalBatchPaths)
           merged == ConcatContents(mgTemp, list, 1, Len(list))
           record == [kind |-> "final", first |-> 0, count |-> Len(list),
                      inputs |-> list, out |-> MergedPath]
       IN  \/ \* writeConcatFile or the final ffmpeg failed
              /\ mgPc' = "failed"
              /\ mgErr' \in {"failed to create final concat file", "final merge failed"}
              /\ mgTemp' = TempAfterFailure(mgTemp)
              /\ UNCHANGED <<mgDir, mgConcats>>
           \/ \* os.Rename failed: the chunk files are gone, merged.ivf stays
              /\ AllExist(mgTemp, list) = TRUE
              /\ mgPc' = "failed"
              /\ mgErr' = "failed to rename merged file"
              /\ mgDir' = [n \in {MergedPath} |-> merged]
              /\ mgConcats' = Append(mgConcats, record)
              /\ UNCHANGED mgTemp
           \/ /\ AllExist(mgTemp, list) = TRUE
              /\ mgPc' = "output"
              /\ mgErr' = mgErr
              /\ mgDir' = [n \in {IVFPath(0)} |-> merged]
              /\ mgTemp' = <<>>
              /\ mgConcats' = Append(mgConcats, record)
    /\ UNCHANGED <<mgN, mgBatch, mgStart, mgVideo, mgRuns, mergeRest>>

\* MergeOutput
MergeOutput ==
    /\ mgPc = "output"
    /\ LET ivfFiles == Glob(mgDir)
           list     == writeConcatFile(ivfFiles)
       IN  \/ /\ Len(ivfFiles) # 0
              /\ mgVideo' = ConcatContents(mgDir, list, 1, Len(list))
              /\ mgConcats' = Append(mgConcats,
                                 [kind |-> "output", first |-> 0, count |-> Len(list),
                                  inputs |-> list, out |-> <<>>])
              /\ mgPc' = "done"
              /\ mgErr' = mgErr
           \/ \* no IVF file, bad FPS, writeConcatFile or ffmpeg failed
              /\ mgPc' = "failed"
              /\ mgErr' \in IF Len(ivfFiles) = 0 THEN {"no IVF files found"}
                            ELSE {"invalid FPS", "failed to create concat file",
                                  "ffmpeg concat failed"}
              /\ UNCHANGED <<mgVideo, mgConcats>>
    /\ UNCHANGED <<mgN, mgDir, mgTemp, mgBatch, mgStart, mgRuns, mergeRest>>

NextMerge ==
    \/ MergeBegin
    \/ MergeBatchStep
    \/ MergeBatchedFinal
    \/ MergeOutput

SpecMerge == InitMerge /\ [][NextMerge]_vars

(***************************************************************************)
(* internal/processing/chunked.go: ProcessChunked for one input.  The      *)
(* stages are the calls it makes; each call's outcome (nil or an error) is *)
(* chosen freely.  ProcessVideos calls it only when no file exists at      *)
(* outputPath.                                                             *)
(***************************************************************************)
\* the error a failed call of a stage makes ProcessChunked return
StageError(stage, call) == <<stage, call>>

StartOf(stage) == <<"start", stage>>
FailOf(stage)  == <<"fail", stage>>
OkOf(stage)    == <<"ok", stage>>

\* a receive from audioDone that does not wait for the close
AudioDoneNotAwaited(audio) == TRUE

\* <-audioDone proceeds once the channel is closed: the goroutine has
\* returned, or there was no audio stream
AudioDoneClosed(audio) == audio \in {"ok", "fail"}

\* audioErr never looked at
AudioErrIgnored(audio) == FALSE

\* if audioErr != nil, read after <-audioDone
AudioFailed(audio) == audio = "fail"

\* the deferred function of ProcessChunked: os.Stat(outputPath) succeeded =>
\* CleanupWorkDir(workDir)
DeferredCleanup(workDir, outputExists) ==
    IF outputExists THEN "removed" ELSE workDir

InitPipeline ==
    /\ PoolScenesCapOff
    /\ DetmIdle
    /\ ThrdIdle
    /\ SampIdle
    /\ FrameIdle
    /\ BatchIdle
    /\ CropIdle
    /\ MergeIdle
    /\ ValidIdle
    /\ LogIdle
    /\ ConfIdle
    /\ ppPc = "workdir"
    /\ ppIdx = "idle"
    /\ ppCrop = "idle"
    /\ ppAudio = "idle"
    /\ ppHasAudio \in BOOLEAN
    /\ ppMany = FALSE
    /\ ppWorkDir \in {"absent", "present"}
    /\ ppOut = FALSE
    /\ ppErr = <<>>
    /\ ppRet = <<>>
    /\ ppLog = <<>>

\* chunk.CreateWorkDir; on failure ProcessChunked returns before the defer
\* statement; on success both phase 1 goroutines are started
PipeCreateWorkDir ==
    /\ ppPc = "workdir"
    /\ \/ /\ ppPc' = "returned"
          /\ ppRet' = StageError("workdir", "CreateWorkDir")
          /\ ppLog' = Append(ppLog, FailOf("workdir"))
          /\ UNCHANGED <<ppIdx, ppCrop, ppWorkDir>>
       \/ /\ ppPc' = "phase1"
          /\ ppWorkDir' = "present"
          /\ ppIdx' = "run"
          /\ ppCrop' = "run"
          /\ ppLog' = ppLog \o <<StartOf("indexing"), StartOf("cropping")>>
          /\ UNCHANGED ppRet
    /\ UNCHANGED <<ppAudio, ppHasAudio, ppMany, ppOut, ppErr, pipeRest>>

\* the indexing goroutine: ffms.NewVidIdx
PipeIndex ==
    /\ ppIdx = "run"
    /\ \/ ppIdx' = "ok" /\ UNCHANGED ppLog
       \/ ppIdx' = "fail" /\ ppLog' = Append(ppLog, FailOf("indexing"))
    /\ UNCHANGED <<ppPc, ppCrop, ppAudio, ppHasAudio, ppMany, ppWorkDir, ppOut, ppErr, ppRet, pipeRest>>

\* the crop goroutine: DetectCrop, which returns no error
PipeCrop ==
    /\ ppCrop = "run"
    /\ ppCrop' = "done"
    /\ UNCHANGED <<ppPc, ppIdx, ppAudio, ppHasAudio, ppMany, ppWorkDir, ppOut, ppErr, ppRet, ppLog,
                   pipeRest>>

\* phase1.Wait() returns when both goroutines have returned
PipePhase1Wait ==
    /\ ppPc = "phase1"
    /\ ppIdx \in {"ok", "fail"}
    /\ ppCrop = "done"
    /\ IF ppIdx = "fail"
       THEN ppPc' = "return" /\ ppErr' = StageError("indexing", "NewVidIdx") /\ UNCHANGED ppLog
       ELSE ppPc' = "planning" /\ ppLog' = Append(ppLog, StartOf("planning")) /\ UNCHANGED ppErr
    /\ UNCHANGED <<ppIdx, ppCrop, ppAudio, ppHasAudio, ppMany, ppWorkDir, ppOut, ppRet, pipeRest>>

\* ffms.GetVidInf
PipeVidInf ==
    /\ ppPc = "planning"
    /\ \/ /\ ppPc' = "return"
          /\ ppErr' = StageError("planning", "GetVidInf")
          /\ ppLog' = Append(ppLog, FailOf("planning"))
       \/ /\ ppPc' = "keyframes"
          /\ UNCHANGED <<ppErr, ppLog>>
    /\ UNCHANGED <<ppIdx, ppCrop, ppAudio, ppHasAudio, ppMany, ppWorkDir, ppOut, ppRet, pipeRest>>

\* keyframe.ExtractKeyframesIfNeeded
PipeKeyframes ==
    /\ ppPc = "keyframes"
    /\ \/ /\ ppPc' = "return"
          /\ ppErr' = StageError("planning", "ExtractKeyframesIfNeeded")
          /\ ppLog' = Append(ppLog, FailOf("planning"))
       \/ /\ ppPc' = "scenes"
          /\ UNCHANGED <<ppErr, ppLog>>
    /\ UNCHANGED <<ppIdx, ppCrop, ppAudio, ppHasAudio, ppMany, ppWorkDir, ppOut, ppRet, pipeRest>>

\* chunk.LoadScenes and chunk.Chunkify: the plan has at most 500 chunks or
\* more
PipeLoadScenes ==
    /\ ppPc = "scenes"
    /\ \/ /\ ppPc' = "return"
          /\ ppErr' = StageError("planning", "LoadScenes")
          /\ ppLog' = Append(ppLog, FailOf("planning"))
          /\ UNCHANGED ppMany
       \/ /\ ppPc' = "admission"
          /\ ppMany' \in BOOLEAN
          /\ ppLog' = Append(ppLog, StartOf("admission"))
          /\ UNCHANGED ppErr
    /\ UNCHANGED <<ppIdx, ppCrop, ppAudio, ppHasAudio, ppWorkDir, ppOut, ppRet, pipeRest>>

\* encode.CapWorkers, then the audio goroutine is started (or audioDone is
\* closed at once) and EncodeAll is called
PipeAdmission ==
    /\ ppPc = "admission"
    /\ ppPc' = "encoding"
    /\ IF ppHasAudio
       THEN /\ ppAudio' = "run"
            /\ ppLog' = ppLog \o <<StartOf("audio"), StartOf("encoding")>>
       ELSE /\ ppAudio' = "ok"
            /\ ppLog' = Append(ppLog, StartOf("encoding"))
    /\ UNCHANGED <<ppIdx, ppCrop, ppHasAudio, ppMany, ppWorkDir, ppOut, ppErr, ppRet, pipeRest>>

\* the audio goroutine: chunk.ExtractAudio sets audioErr, audioDone is closed
PipeAudio ==
    /\ ppAudio = "run"
    /\ \/ ppAudio' = "ok" /\ ppLog' = Append(ppLog, OkOf("audio"))
       \/ ppAudio' = "fail" /\ ppLog' = Append(ppLog, FailOf("audio"))
    /\ UNCHANGED <<ppPc, ppIdx, ppCrop, ppHasAudio, ppMany, ppWorkDir, ppOut, ppErr, ppRet, pipeRest>>

\* encode.EncodeAll returns
PipeEncode ==
    /\ ppPc = "encoding"
    /\ \/ /\ ppPc' = "awaitAudio"
          /\ ppErr' = StageError("encoding", "EncodeAll")
          /\ ppLog' = Append(ppLog, FailOf("encoding"))
       \/ /\ ppPc' = "merging"
          /\ ppLog' = Append(ppLog, StartOf("merging"))
          /\ UNCHANGED ppErr
    /\ UNCHANGED <<ppIdx, ppCrop, ppAudio, ppHasAudio, ppMany, ppWorkDir, ppOut, ppRet, pipeRest>>

\* if len(chunks) > 500 { chunk.MergeBatched }
PipeMergeBatched ==
    /\ ppPc = "merging"
    /\ \/ /\ ppMany
          /\ ppPc' = "awaitAudio"
          /\ ppErr' = StageError("merging", "MergeBatched")
          /\ ppLog' = Append(ppLog, FailOf("merging"))
       \/ /\ ppPc' = "mergeOutput"
          /\ UNCHANGED <<ppErr, ppLog>>
    /\ UNCHANGED <<ppIdx, ppCrop, ppAudio, ppHasAudio, ppMany, ppWorkDir, ppOut, ppRet, pipeRest>>

\* chunk.MergeOutput
PipeMergeOutput ==
    /\ ppPc = "mergeOutput"
    /\ \/ /\ ppPc' = "awaitAudio"
          /\ ppErr' = StageError("merging", "MergeOutput")
          /\ ppLog' = Append(ppLog, FailOf("merging"))
       \/ /\ ppPc' = "joinAudio"
          /\ UNCHANGED <<ppErr, ppLog>>
    /\ UNCHANGED <<ppIdx, ppCrop, ppAudio, ppHasAudio, ppMany, ppWorkDir, ppOut, ppRet, pipeRest>>

\* <-audioDone on a failure path of the encode or the merge
PipeAwaitAudio ==
    /\ ppPc = "awaitAudio"
    /\ AudioDoneClosed(ppAudio)
    /\ ppPc' = "return"
    /\ UNCHANGED <<ppIdx, ppCrop, ppAudio, ppHasAudio, ppMany, ppWorkDir, ppOut, ppErr, ppRet, ppLog,
                   pipeRest>>

\* <-audioDone after the merge; if audioErr != nil return it
PipeJoinAudio ==
    /\ ppPc = "joinAudio"
    /\ AudioDoneClosed(ppAudio)
    /\ IF AudioFailed(ppAudio)
       THEN ppPc' = "return" /\ ppErr' = StageError("audio", "ExtractAudio") /\ UNCHANGED ppLog
       ELSE ppPc' = "remuxing" /\ ppLog' = Append(ppLog, StartOf("remuxing")) /\ UNCHANGED ppErr
    /\ UNCHANGED <<ppIdx, ppCrop, ppAudio, ppHasAudio, ppMany, ppWorkDir, ppOut, ppRet, pipeRest>>

\* chunk.MuxFinal: ffmpeg -y outputPath.  On success the output exists; when
\* ffmpeg fails it may or may not have created the file already.
PipeMux ==
    /\ ppPc = "remuxing"
    /\ ppPc' = "return"
    /\ \/ /\ ppOut' = TRUE
          /\ UNCHANGED <<ppErr, ppLog>>
       \/ /\ ppOut' \in BOOLEAN
          /\ ppErr' = StageError("remuxing", "MuxFinal")
          /\ ppLog' = Append(ppLog, FailOf("remuxing"))
    /\ UNCHANGED <<ppIdx, ppCrop, ppAudio, ppHasAudio, ppMany, ppWorkDir, ppRet, pipeRest>>

\* ProcessChunked returns: the deferred cleanup runs
PipeReturn ==
    /\ ppPc = "return"
    /\ ppPc' = "returned"
    /\ ppRet' = ppErr
    /\ ppWorkDir' = DeferredCleanup(ppWorkDir, ppOut)
    /\ UNCHANGED <<ppIdx, ppCrop, ppAudio, ppHasAudio, ppMany, ppOut, ppErr, ppLog, pipeRest>>

NextPipeline ==
    \/ PipeCreateWorkDir
    \/ PipeIndex
    \/ PipeCrop
    \/ PipePhase1Wait
    \/ PipeVidInf
    \/ PipeKeyframes
    \/ PipeLoadScenes
    \/ PipeAdmission
    \/ PipeAudio
    \/ PipeEncode
    \/ PipeMergeBatched
    \/ PipeMergeOutput
    \/ PipeAwaitAudio
    \/ PipeJoinAudio
    \/ PipeMux
    \/ PipeReturn

SpecPipeline == InitPipeline /\ [][NextPipeline]_vars

(***************************************************************************)
(* package validation: ValidateOutputVideo, and the verdict ProcessVideos  *)
(* derives from it.  The probes of the output file (ffprobe, mediainfo)    *)
(* are the inputs; each check draws what its probe reports.                *)
(***************************************************************************)
ValidationChecks ==
    {"codec", "bitdepth", "dimensions", "duration", "hdr", "audiocodec", "audiotracks", "sync"}

\* codec names ffprobe may report; "" when the name could not be read
CodecNames == {"av1", "libsvtav1", "AV01", "hevc", ""}

\* strings.Contains(strings.ToLower(codecName), "av1") || ... "av01"
ContainsAV1(codecName) == codecName \in {"av1", "libsvtav1", "AV01"}

\* the durations compared: differences around both tolerances, milliseconds
DurationDiffs == {0, 100, 101, 1000, 1001}

durationToleranceMs == 1000
maxSyncDriftMs      == 100

\* result := &Result{...}: the flags ValidateOutputVideo starts from
NewResult ==
    [IsAV1 |-> FALSE, Is10Bit |-> FALSE, IsCropCorrect |-> TRUE,
     IsDurationCorrect |-> TRUE, IsHDRCorrect |-> TRUE, IsAudioOpus |-> TRUE,
     IsAudioTrackCountCorrect |-> TRUE, IsSyncPreserved |-> TRUE]

\* Result.IsValid
IsValid(r) ==
    /\ r.IsAV1 /\ r.Is10Bit /\ r.IsCropCorrect /\ r.IsDurationCorrect
    /\ r.IsHDRCorrect /\ r.IsAudioOpus /\ r.IsAudioTrackCountCorrect /\ r.IsSyncPreserved

\* validateVideoCodec: probeOk is GetMediaInfo succeeding, the codec name is
\* read only when the probe reports a width
validateVideoCodec(probeOk, hasWidth, codecName) ==
    probeOk /\ ContainsAV1(IF hasWidth THEN codecName ELSE "")

\* validateBitDepth: mediainfo's bit depth if it has one, else ffprobe's,
\* else the default; 0 stands for "no bit depth", -1 for a failed probe
validateBitDepth(miDepth, fpDepth) ==
    IF miDepth > 0 THEN miDepth >= 10
    ELSE IF fpDepth = 0 - 1 THEN FALSE
    ELSE IF fpDepth > 0 THEN fpDepth >= 10
    ELSE TRUE

\* validateDuration
validateDuration(diffMs) == diffMs <= durationToleranceMs

\* a sync check as tolerant as the duration check
validateSyncLoose(diffMs) == diffMs <= durationToleranceMs

\* validateSync
validateSync(diffMs) == diffMs <= maxSyncDriftMs

\* HDR classifications: "nil" is an absent *bool
HdrValues == {"nil", "hdr", "sdr"}

\* validateHDRResult passing when the classification could not be detected
validateHDRResultUndetectedPasses(expectedHDR, actualHDR) ==
    IF expectedHDR # "nil" /\ actualHDR # "nil" THEN expectedHDR = actualHDR
    ELSE TRUE

\* validateHDRResult: IsValid
validateHDRResult(expectedHDR, actualHDR) ==
    IF expectedHDR # "nil" /\ actualHDR # "nil" THEN expectedHDR = actualHDR
    ELSE IF expectedHDR = "nil" /\ actualHDR # "nil" THEN TRUE
    ELSE FALSE

\* validateHDRStatusWithAvailabilityCheck failing when MediaInfo is missing
validateHDRUnavailableFails(expectedHDR, actualHDR, mediainfoAvailable) ==
    mediainfoAvailable /\ validateHDRResult(expectedHDR, actualHDR)

\* validateHDRStatusWithAvailabilityCheck: IsValid
validateHDRStatusWithAvailabilityCheck(expectedHDR, actualHDR, mediainfoAvailable) ==
    IF ~mediainfoAvailable THEN TRUE
    ELSE validateHDRResult(expectedHDR, actualHDR)

Verdict(b) == IF b THEN "pass" ELSE "fail"

\* the audio tracks the output can hold, as ffprobe names their codecs
AudioOutputs ==
    {<<>>, <<"opus">>, <<"Opus">>, <<"aac">>, <<"opus", "opus">>, <<"opus", "aac">>}

\* opts.ExpectedAudioTracks when given; NoTrackCount is the nil pointer
ExpectedTrackCounts == {1, 2}
NoTrackCount == 0 - 1

\* strings.ToLower on the codec names above
ToLower(name) == IF name = "Opus" THEN "opus" ELSE name

\* every track of the output is Opus, whatever the case of the name
AllOpus(streams) == \A i \in 1..Len(streams) : ToLower(streams[i]) = "opus"

\* validateAudio: <<isOpus, trackCountCorrect>>
validateAudio(streams, expectedTracks) ==
    <<\A i \in 1..Len(streams) : ToLower(streams[i]) = "opus",
      IF expectedTracks # NoTrackCount THEN Len(streams) = expectedTracks ELSE TRUE>>

\* the audio flags when GetAudioStreamInfo fails: only AudioMessage is set,
\* the flags keep the value NewResult gave them
AudioFlagsOnProbeError(result) ==
    <<result.IsAudioOpus, result.IsAudioTrackCountCorrect>>

\* vlIn before any probe
NoProbes ==
    [mediainfo |-> "unset", actualHDR |-> "unset", audioProbe |-> "unset",
     streams |-> <<>>, expectedTracks |-> NoTrackCount]

InitValidate ==
    /\ PoolScenesCapOff
    /\ DetmIdle
    /\ ThrdIdle
    /\ SampIdle
    /\ FrameIdle
    /\ BatchIdle
    /\ CropIdle
    /\ MergeIdle
    /\ PipeIdle
    /\ LogIdle
    /\ ConfIdle
    /\ vlPc = "probe"
    /\ vlOpts \in [dimensions : BOOLEAN, duration : BOOLEAN, hdr : HdrValues, tracks : BOOLEAN]
    /\ vlRes = NewResult
    /\ vlDiff = 0
    /\ vlErr = <<>>
    /\ vlPassed = FALSE
    /\ vlChecks = [c \in ValidationChecks |-> "none"]
    /\ vlIn = NoProbes

\* ffprobe.GetVideoProperties and ffprobe.GetMediaInfo of the output
ValProbe ==
    /\ vlPc = "probe"
    /\ \/ /\ vlPc' = "codec"
          /\ vlDiff' \in DurationDiffs
          /\ UNCHANGED vlErr
       \/ /\ vlPc' = "verdict"
          /\ vlErr' \in {<<"failed to get output video properties">>,
                          <<"failed to get media info">>}
          /\ UNCHANGED vlDiff
    /\ UNCHANGED <<vlOpts, vlRes, vlPassed, vlChecks, vlIn, validRest>>

\* result.IsAV1 = validateVideoCodec(outputPath)
ValCodec ==
    /\ vlPc = "codec"
    /\ \E probeOk \in BOOLEAN, hasWidth \in BOOLEAN, name \in CodecNames :
          LET ok == validateVideoCodec(probeOk, hasWidth, name)
          IN  /\ vlRes' = [vlRes EXCEPT !.IsAV1 = ok]
              /\ vlChecks' = [vlChecks EXCEPT !["codec"] =
                                 Verdict(probeOk /\ hasWidth /\ ContainsAV1(name))]
    /\ vlPc' = "bitdepth"
    /\ UNCHANGED <<vlOpts, vlDiff, vlErr, vlPassed, vlIn, validRest>>

\* result.Is10Bit = validateBitDepth(outputPath)
ValBitDepth ==
    /\ vlPc = "bitdepth"
    /\ \E miDepth \in {0, 8, 10}, fpDepth \in {0 - 1, 0, 8, 10} :
          LET ok == validateBitDepth(miDepth, fpDepth)
          IN  /\ vlRes' = [vlRes EXCEPT !.Is10Bit = ok]
              /\ vlChecks' = [vlChecks EXCEPT !["bitdepth"] =
                                 IF miDepth > 0 THEN Verdict(miDepth >= 10)
                                 ELSE IF fpDepth > 0 THEN Verdict(fpDepth >= 10)
                                 ELSE IF fpDepth = 0 THEN "pass"
                                 ELSE "fail"]
    /\ vlPc' = "dimensions"
    /\ UNCHANGED <<vlOpts, vlDiff, vlErr, vlPassed, vlIn, validRest>>

\* if opts.ExpectedDimensions != nil { validateDimensions }
ValDimensions ==
    /\ vlPc = "dimensions"
    /\ IF vlOpts.dimensions
       THEN \E match \in BOOLEAN :
               /\ vlRes' = [vlRes EXCEPT !.IsCropCorrect = match]
               /\ vlChecks' = [vlChecks EXCEPT !["dimensions"] = Verdict(match)]
       ELSE UNCHANGED <<vlRes, vlChecks>>
    /\ vlPc' = "duration"
    /\ UNCHANGED <<vlOpts, vlDiff, vlErr, vlPassed, vlIn, validRest>>

\* if opts.ExpectedDuration != nil { validateDuration }
ValDuration ==
    /\ vlPc = "duration"
    /\ IF vlOpts.duration
       THEN /\ vlRes' = [vlRes EXCEPT !.IsDurationCorrect = validateDuration(vlDiff)]
            /\ vlChecks' = [vlChecks EXCEPT !["duration"] = Verdict(vlDiff <= durationToleranceMs)]
       ELSE UNCHANGED <<vlRes, vlChecks>>
    /\ vlPc' = "hdr"
    /\ UNCHANGED <<vlOpts, vlDiff, vlErr, vlPassed, vlIn, validRest>>

\* the HDR check: with an expectation ValidateHDRStatusWithPath decides, with
\* none IsHDRCorrect = true
ValHDR ==
    /\ vlPc = "hdr"
    /\ \E available \in BOOLEAN, actual \in HdrValues :
          /\ vlIn' = [vlIn EXCEPT !.mediainfo = IF available THEN "available" ELSE "missing",
                                  !.actualHDR = actual]
          /\ IF vlOpts.hdr # "nil"
             THEN /\ vlRes' = [vlRes EXCEPT !.IsHDRCorrect =
                                 validateHDRStatusWithAvailabilityCheck(vlOpts.hdr, actual, available)]
                  /\ vlChecks' = [vlChecks EXCEPT !["hdr"] =
                                     IF ~available THEN "skipped" ELSE Verdict(actual = vlOpts.hdr)]
             ELSE /\ vlRes' = [vlRes EXCEPT !.IsHDRCorrect = TRUE]
                  /\ UNCHANGED vlChecks
    /\ vlPc' = "audio"
    /\ UNCHANGED <<vlOpts, vlDiff, vlErr, vlPassed, validRest>>

\* ffprobe.GetAudioStreamInfo and validateAudio; when the probe fails the
\* flags keep their initial value
ValAudio ==
    /\ vlPc = "audio"
    /\ \E streams \in AudioOutputs,
          expectedTracks \in (IF vlOpts.tracks THEN ExpectedTrackCounts ELSE {NoTrackCount}) :
          \/ \* ffprobe.GetAudioStreamInfo fails
             /\ vlIn' = [vlIn EXCEPT !.audioProbe = "failed", !.streams = streams,
                                     !.expectedTracks = expectedTracks]
             /\ vlRes' = [vlRes EXCEPT
                             !.IsAudioOpus = AudioFlagsOnProbeError(vlRes)[1],
                             !.IsAudioTrackCountCorrect = AudioFlagsOnProbeError(vlRes)[2]]
             /\ UNCHANGED vlChecks
          \/ LET flags == validateAudio(streams, expectedTracks)
             IN  /\ vlIn' = [vlIn EXCEPT !.audioProbe = "ok", !.streams = streams,
                                         !.expectedTracks = expectedTracks]
                 /\ vlRes' = [vlRes EXCEPT !.IsAudioOpus = flags[1],
                                           !.IsAudioTrackCountCorrect = flags[2]]
                 /\ vlChecks' = [vlChecks EXCEPT
                                    !["audiocodec"] = Verdict(AllOpus(streams)),
                                    !["audiotracks"] =
                                        IF vlOpts.tracks
                                        THEN Verdict(Len(streams) = expectedTracks)
                                        ELSE "none"]
    /\ vlPc' = "sync"
    /\ UNCHANGED <<vlOpts, vlDiff, vlErr, vlPassed, validRest>>

\* if opts.ExpectedDuration != nil && mediaInfo != nil { validateSync }
ValSync ==
    /\ vlPc = "sync"
    /\ IF vlOpts.duration
       THEN /\ vlRes' = [vlRes EXCEPT !.IsSyncPreserved = validateSync(vlDiff)]
            /\ vlChecks' = [vlChecks EXCEPT !["sync"] = Verdict(vlDiff <= maxSyncDriftMs)]
       ELSE UNCHANGED <<vlRes, vlChecks>>
    /\ vlPc' = "verdict"
    /\ UNCHANGED <<vlOpts, vlDiff, vlErr, vlPassed, vlIn, validRest>>

\* ProcessVideos: validationPassed, handed to rep.ValidationComplete
ValVerdict ==
    /\ vlPc = "verdict"
    /\ vlPassed' = IF vlErr # Nil THEN FALSE ELSE IsValid(vlRes)
    /\ vlPc' = "reported"
    /\ UNCHANGED <<vlOpts, vlRes, vlDiff, vlErr, vlChecks, vlIn, validRest>>

NextValidate ==
    \/ ValProbe
    \/ ValCodec
    \/ ValBitDepth
    \/ ValDimensions
    \/ ValDuration
    \/ ValHDR
    \/ ValAudio
    \/ ValSync
    \/ ValVerdict

SpecValidate == InitValidate /\ [][NextValidate]_vars

(***************************************************************************)
(* done.txt as text: chunk.AppendDone writes a line, chunk.GetResume reads *)
(* the file back.  Text is a sequence of character codes.                  *)
(***************************************************************************)
MaxLogAppends == 3   \* writes to done.txt tried, the torn one included

\* the completion records tried
LogRecords == [Idx : {0, 1, 2, 12}, Frames : {7}, Size : {0, 50}]

\* "%d %d %d" and a line end, without the line end
DoneLineUnterminated(comp) ==
    Digits(comp.Idx) \o <<32>> \o Digits(comp.Frames) \o <<32>> \o Digits(comp.Size)

\* fmt.Fprintf(file, "%d %d %d\n", chunk.Idx, chunk.Frames, chunk.Size)
DoneLine(comp) ==
    Digits(comp.Idx) \o <<32>> \o Digits(comp.Frames) \o <<32>> \o Digits(comp.Size) \o <<10>>

\* unicode.IsSpace over the characters a done.txt of this model can hold
IsSpace(c) == c \in {32, 10, 13, 9}

\* bufio.Scanner with ScanLines: the text between line ends, a final line
\* without line end included, no empty token after the last line end
RECURSIVE ScanLines(_, _)
ScanLines(text, line) ==
    IF text = <<>> THEN (IF line = <<>> THEN <<>> ELSE <<line>>)
    ELSE IF Head(text) = 10 THEN <<line>> \o ScanLines(Tail(text), <<>>)
    ELSE ScanLines(Tail(text), Append(line, Head(text)))

\* strings.TrimSpace
RECURSIVE TrimSpace(_)
TrimSpace(line) ==
    IF line = <<>> THEN line
    ELSE IF IsSpace(Head(line)) THEN TrimSpace(Tail(line))
    ELSE IF IsSpace(line[Len(line)]) THEN TrimSpace(SubSeq(line, 1, Len(line) - 1))
    ELSE line

\* strings.Fields
RECURSIVE Fields(_, _)
Fields(line, field) ==
    IF line = <<>> THEN (IF field = <<>> THEN <<>> ELSE <<field>>)
    ELSE IF IsSpace(Head(line))
         THEN (IF field = <<>> THEN <<>> ELSE <<field>>) \o Fields(Tail(line), <<>>)
    ELSE Fields(Tail(line), Append(field, Head(line)))

\* strconv.Atoi / strconv.ParseUint(s, 10, 64) succeed: on the unsigned
\* decimal texts of this model, a non-empty run of digits (no text here is
\* long enough to leave the integer range)
IsNumber(s) == s # <<>> /\ \A i \in 1..Len(s) : s[i] \in 48..57

\* the value strconv.Atoi / strconv.ParseUint return
RECURSIVE ParseNumber(_)
ParseNumber(s) ==
    IF s = <<>> THEN 0
    ELSE 10 * ParseNumber(SubSeq(s, 1, Len(s) - 1)) + (s[Len(s)] - 48)

\* GetResume's loop body: the record of one line, or nothing
ParseLine(rawLine) ==
    LET line  == TrimSpace(rawLine)
        parts == Fields(line, <<>>)
    IN  IF line = <<>> THEN <<>>
        ELSE IF Len(parts) # 3 THEN <<>>
        ELSE IF ~IsNumber(parts[1]) \/ ~IsNumber(parts[2]) \/ ~IsNumber(parts[3]) THEN <<>>
        ELSE <<[Idx |-> ParseNumber(parts[1]), Frames |-> ParseNumber(parts[2]),
                Size |-> ParseNumber(parts[3])]>>

RECURSIVE ParseLines(_)
ParseLines(lines) ==
    IF lines = <<>> THEN <<>> ELSE ParseLine(Head(lines)) \o ParseLines(Tail(lines))

\* GetResume: ChunksDone
GetResume(exists, text) ==
    IF ~exists THEN <<>> ELSE ParseLines(ScanLines(text, <<>>))

InitLog ==
    /\ PoolScenesCapOff
    /\ DetmIdle
    /\ ThrdIdle
    /\ SampIdle
    /\ FrameIdle
    /\ BatchIdle
    /\ CropIdle
    /\ MergeIdle
    /\ PipeIdle
    /\ ValidIdle
    /\ LogIdle
    /\ ConfIdle

\* AppendDone returns nil: O_APPEND|O_CREATE, the whole line written
LogAppendDone ==
    /\ Len(rlAppended) + (IF rlTorn THEN 1 ELSE 0) < MaxLogAppends
    /\ \E comp \in LogRecords :
          /\ rlFile' = rlFile \o DoneLine(comp)
          /\ rlAppended' = Append(rlAppended, comp)
          /\ rlEncoded' = rlEncoded \cup {comp.Idx}
    /\ rlExists' = TRUE
    /\ UNCHANGED <<rlTorn, rlFailed, rlLoaded, logRest>>

\* the process dies inside AppendDone's write: a proper, non-empty prefix of
\* the line reaches the file
LogCrashInAppend ==
    /\ ~rlTorn
    /\ Len(rlAppended) < MaxLogAppends
    /\ \E comp \in LogRecords :
          \E k \in 1..(Len(DoneLine(comp)) - 1) :
             /\ rlFile' = rlFile \o SubSeq(DoneLine(comp), 1, k)
             /\ rlEncoded' = rlEncoded \cup {comp.Idx}
    /\ rlExists' = TRUE
    /\ rlTorn' = TRUE
    /\ UNCHANGED <<rlAppended, rlFailed, rlLoaded, logRest>>

\* GetResume at the start of a run
LogGetResume ==
    /\ rlLoaded' = GetResume(rlExists, rlFile)
    /\ UNCHANGED <<rlExists, rlFile, rlAppended, rlEncoded, rlTorn, rlFailed, logRest>>

NextLog ==
    \/ LogAppendDone
    \/ LogCrashInAppend
    \/ LogGetResume

SpecLog == InitLog /\ [][NextLog]_vars

\* AppendDone returns an error, which the collector ignores: os.OpenFile
\* failed and nothing was written, or Fprintf failed after it had written
\* none or some of the line's bytes (a full disk); the run goes on
LogAppendFails ==
    /\ rlFailed = {}
    /\ \E comp \in LogRecords :
          \E k \in 0..(Len(DoneLine(comp)) - 1) :
             /\ rlFile' = rlFile \o SubSeq(DoneLine(comp), 1, k)
             /\ rlExists' \in (IF k = 0 THEN {rlExists, TRUE} ELSE {TRUE})
             /\ rlEncoded' = rlEncoded \cup {comp.Idx}
             /\ rlFailed' = {comp.Idx}
    /\ UNCHANGED <<rlAppended, rlTorn, rlLoaded, logRest>>

NextLogFail ==
    \/ LogAppendDone
    \/ LogAppendFails
    \/ LogGetResume

SpecLogFail == InitLog /\ [][NextLogFail]_vars

(***************************************************************************)
(* Configuration: config.NewConfig and Config.Validate, the command line   *)
(* of executeEncode, and the library's reel.New.  Chunk durations are in   *)
(* milliseconds.                                                           *)
(***************************************************************************)
\* the values tried for each setting
PresetArgs   == {0, 6, 13, 14, 255, 256, 269, 300}   \* --preset, a uint flag
CrfArgs      == {0, 27, 63, 64, 255, 256}            \* one value of --crf
CrfBytes     == {0, 63, 64, 255}                     \* a uint8 CRF
WorkerArgs   == {0 - 1, 0, 1, 24}
BufferArgs   == {0 - 1, 0, 4}
DurationArgs == {0, 999, 1000, 30000, 120000, 120001}

\* uint8(x)
Uint8(x) == x % 256

\* config.NewConfig: the defaults Validate looks at
NewConfig ==
    [SVTAV1Preset |-> 6, CRFSD |-> 25, CRFHD |-> 27, CRFUHD |-> 29,
     Workers |-> 24, ChunkBuffer |-> 4,
     ChunkDurationSD |-> 20000, ChunkDurationHD |-> 30000, ChunkDurationUHD |-> 45000]

\* Config.Validate: the first failing test, Nil when none fails
Validate(c) ==
    IF c.SVTAV1Preset > 13 THEN <<"svt_av1_preset must be 0-13">>
    ELSE IF c.CRFSD > 63 THEN <<"crf-sd must be 0-63">>
    ELSE IF c.CRFHD > 63 THEN <<"crf-hd must be 0-63">>
    ELSE IF c.CRFUHD > 63 THEN <<"crf-uhd must be 0-63">>
    ELSE IF c.Workers < 1 THEN <<"workers must be at least 1">>
    ELSE IF c.ChunkBuffer < 0 THEN <<"chunk_buffer must be non-negative">>
    ELSE IF c.ChunkDurationSD < 1000 \/ c.ChunkDurationSD > 120000
         THEN <<"chunk_duration_sd must be between 1 and 120 seconds">>
    ELSE IF c.ChunkDurationHD < 1000 \/ c.ChunkDurationHD > 120000
         THEN <<"chunk_duration_hd must be between 1 and 120 seconds">>
    ELSE IF c.ChunkDurationUHD < 1000 \/ c.ChunkDurationUHD > 120000
         THEN <<"chunk_duration_uhd must be between 1 and 120 seconds">>
    ELSE Nil

\* if ea.preset != 0 { cfg.SVTAV1Preset = uint8(ea.preset) }
PresetOfFlag(cur, preset) == IF preset # 0 THEN Uint8(preset) ELSE cur

\* strconv.ParseUint(s, 10, 8) succeeds
ParsesAsUint8(crf) == crf >= 0 /\ crf <= 255

InitConfig ==
    /\ PoolScenesCapOff
    /\ DetmIdle
    /\ ThrdIdle
    /\ SampIdle
    /\ FrameIdle
    /\ BatchIdle
    /\ CropIdle
    /\ MergeIdle
    /\ PipeIdle
    /\ ValidIdle
    /\ LogIdle
    /\ cfPc \in {"cli", "lib"}
    /\ cfGiven = <<>>
    /\ cfCfg = NewConfig
    /\ cfErr = <<>>
    /\ cfWork = FALSE

\* executeEncode: "Override with explicit CLI arguments"
CfgOverride ==
    /\ cfPc = "cli"
    /\ \E crfSet \in BOOLEAN, crf \in CrfArgs, preset \in PresetArgs,
          workers \in WorkerArgs, buffer \in BufferArgs :
          LET c == IF crfSet THEN crf ELSE NewConfig.CRFSD
          IN  /\ cfGiven' = [NewConfig EXCEPT
                                !.SVTAV1Preset = IF preset # 0 THEN preset ELSE @,
                                !.CRFSD = IF crfSet THEN crf ELSE @,
                                !.CRFHD = IF crfSet THEN crf ELSE @,
                                !.CRFUHD = IF crfSet THEN crf ELSE @,
                                !.Workers = workers, !.ChunkBuffer = buffer]
              /\ IF crfSet /\ ~ParsesAsUint8(crf)
                 THEN /\ cfErr' = <<"invalid CRF value">>
                      /\ cfPc' = "returned"
                      /\ UNCHANGED cfCfg
                 ELSE /\ cfCfg' = [cfCfg EXCEPT
                                      !.SVTAV1Preset = PresetOfFlag(@, preset),
                                      !.CRFSD = IF crfSet THEN Uint8(crf) ELSE @,
                                      !.CRFHD = IF crfSet THEN Uint8(crf) ELSE @,
                                      !.CRFUHD = IF crfSet THEN Uint8(crf) ELSE @,
                                      !.Workers = workers, !.ChunkBuffer = buffer]
                      /\ cfPc' = "validate"
                      /\ UNCHANGED cfErr
    /\ UNCHANGED <<cfWork, confRest>>

\* reel.New: for _, opt := range opts { opt(cfg) }, with WithCRFByResolution,
\* WithWorkers, WithChunkBuffer and an Option that sets one chunk duration
CfgOptions ==
    /\ cfPc = "lib"
    /\ \E sd \in CrfBytes, hd \in CrfBytes, uhd \in CrfBytes,
          workers \in WorkerArgs, buffer \in BufferArgs,
          field \in {"ChunkDurationSD", "ChunkDurationHD", "ChunkDurationUHD"},
          dur \in DurationArgs :
          /\ cfCfg' = [[cfCfg EXCEPT !.CRFSD = sd, !.CRFHD = hd, !.CRFUHD = uhd,
                                     !.Workers = workers, !.ChunkBuffer = buffer]
                          EXCEPT ![field] = dur]
          /\ cfGiven' = cfCfg'
    /\ cfPc' = "validate"
    /\ UNCHANGED <<cfErr, cfWork, confRest>>

\* if err := cfg.Validate(); err != nil { return ... }
CfgValidate ==
    /\ cfPc = "validate"
    /\ cfErr' = Validate(cfCfg)
    /\ cfPc' = IF cfErr' # Nil THEN "returned" ELSE "accepted"
    /\ UNCHANGED <<cfGiven, cfCfg, cfWork, confRest>>

\* executeEncode goes on to processing.ProcessVideos; New returns the Encoder
CfgProceed ==
    /\ cfPc = "accepted"
    /\ cfWork' = TRUE
    /\ cfPc' = "returned"
    /\ UNCHANGED <<cfGiven, cfCfg, cfErr, confRest>>

NextConfig ==
    \/ CfgOverride
    \/ CfgOptions
    \/ CfgValidate
    \/ CfgProceed

SpecConfig == InitConfig /\ [][NextConfig]_vars

(***************************************************************************)
(* processing.ProcessVideos: the loop over the inputs of a batch and the   *)
(* summary after it.                                                       *)
(***************************************************************************)
MaxBatchFiles == 3   \* most inputs of a batch tried

\* the loop leaving at a failed input
StopAfterFailure(fileIdx, n) == n + 1

\* continue: the loop goes on with the next input
ContinueAfterFailure(fileIdx, n) == fileIdx + 1

\* EncodeResult, as far as the summary reads it
BatchResult(fileIdx, validationPassed) ==
    [Filename |-> fileIdx, ValidationPassed |-> validationPassed]

\* validationPassedCount
RECURSIVE CountPassed(_)
CountPassed(rs) ==
    IF rs = <<>> THEN 0
    ELSE (IF Head(rs).ValidationPassed THEN 1 ELSE 0) + CountPassed(Tail(rs))

\* reporter.BatchSummary as ProcessVideos fills it
BatchSummary(rs, totalFiles) ==
    [SuccessfulCount       |-> Len(rs),
     TotalFiles            |-> totalFiles,
     ValidationPassedCount |-> CountPassed(rs),
     ValidationFailedCount |-> Len(rs) - CountPassed(rs)]

InitBatch ==
    /\ PoolScenesCapOff
    /\ DetmIdle
    /\ ThrdIdle
    /\ SampIdle
    /\ FrameIdle
    /\ CropIdle
    /\ MergeIdle
    /\ PipeIdle
    /\ ValidIdle
    /\ LogIdle
    /\ ConfIdle
    /\ bvPc = "loop"
    /\ bvN \in 1..MaxBatchFiles
    /\ bvIdx = 1
    /\ bvCancelled = FALSE
    /\ bvResults = <<>>
    /\ bvSummary = <<>>
    /\ bvLog = <<>>

\* ctx is cancelled (interrupt)
BatchCancel ==
    /\ bvPc = "loop"
    /\ ~bvCancelled
    /\ bvCancelled' = TRUE
    /\ UNCHANGED <<bvPc, bvN, bvIdx, bvResults, bvSummary, bvLog, batchRest>>

\* if ctx.Err() != nil { break }
BatchBreak ==
    /\ bvPc = "loop"
    /\ bvIdx <= bvN
    /\ bvCancelled
    /\ bvPc' = "summary"
    /\ UNCHANGED <<bvN, bvIdx, bvCancelled, bvResults, bvSummary, bvLog, batchRest>>

\* the range over filesToProcess is exhausted
BatchLoopEnds ==
    /\ bvPc = "loop"
    /\ bvIdx > bvN
    /\ bvPc' = "summary"
    /\ UNCHANGED <<bvN, bvIdx, bvCancelled, bvResults, bvSummary, bvLog, batchRest>>

\* if util.FileExists(outputPath) { continue }
BatchSkipExisting ==
    /\ bvPc = "loop"
    /\ bvIdx <= bvN
    /\ ~bvCancelled
    /\ bvLog' = Append(bvLog, "exists")
    /\ bvIdx' = bvIdx + 1
    /\ UNCHANGED <<bvPc, bvN, bvCancelled, bvResults, bvSummary, batchRest>>

\* ffprobe.GetVideoProperties or mediainfo.GetMediaInfo fails: continue
BatchProbeFails ==
    /\ bvPc = "loop"
    /\ bvIdx <= bvN
    /\ ~bvCancelled
    /\ bvLog' = Append(bvLog, "probe failed")
    /\ bvIdx' = ContinueAfterFailure(bvIdx, bvN)
    /\ UNCHANGED <<bvPc, bvN, bvCancelled, bvResults, bvSummary, batchRest>>

\* ProcessChunked returns an error (a cancellation during the encode is one
\* of its causes): continue
BatchEncodeFails ==
    /\ bvPc = "loop"
    /\ bvIdx <= bvN
    /\ ~bvCancelled
    /\ bvCancelled' \in BOOLEAN
    /\ bvLog' = Append(bvLog, "encode failed")
    /\ bvIdx' = ContinueAfterFailure(bvIdx, bvN)
    /\ UNCHANGED <<bvPc, bvN, bvResults, bvSummary, batchRest>>

\* ProcessChunked succeeds; the output is validated and the result appended
BatchEncoded ==
    /\ bvPc = "loop"
    /\ bvIdx <= bvN
    /\ ~bvCancelled
    /\ \E validationPassed \in BOOLEAN :
          /\ bvResults' = Append(bvResults, BatchResult(bvIdx, validationPassed))
          /\ bvLog' = Append(bvLog, IF validationPassed THEN "valid" ELSE "validation failed")
    /\ bvIdx' = bvIdx + 1
    /\ UNCHANGED <<bvPc, bvN, bvCancelled, bvSummary, batchRest>>

\* switch len(results): rep.BatchComplete is called for two results or more
BatchSummarize ==
    /\ bvPc = "summary"
    /\ bvSummary' = IF Len(bvResults) >= 2 THEN BatchSummary(bvResults, bvN) ELSE Nil
    /\ bvPc' = "returned"
    /\ UNCHANGED <<bvN, bvIdx, bvCancelled, bvResults, bvLog, batchRest>>

NextBatch ==
    \/ BatchCancel
    \/ BatchBreak
    \/ BatchLoopEnds
    \/ BatchSkipExisting
    \/ BatchProbeFails
    \/ BatchEncodeFails
    \/ BatchEncoded
    \/ BatchSummarize

SpecBatch == InitBatch /\ [][NextBatch]_vars

(***************************************************************************)
(* encodeChunkStreaming from cmd.Start() on: the frame loop of one worker, *)
(* with the cancellation of ctx and the first-error latch of EncodeAll as  *)
(* events of its environment.                                              *)
(***************************************************************************)
MaxFrames == 4   \* most frames of a chunk tried

\* the loop never looking at ctx
CancelNeverSeen(ctxCancelled, latched) == FALSE

\* the loop head's test: if ctx.Err() != nil
CancelSeen(ctxCancelled, latched) == ctxCancelled

\* where the worker is and what it has done
FrameSnapshot == [pc |-> fePc, i |-> feI, read |-> feRead, written |-> feWritten]

\* return worker.EncodeResult{...} after stdin.Close() and cmd.Wait()
FrameReturn(result) ==
    /\ feClosed' = TRUE
    /\ feWaited' = TRUE
    /\ feResult' = <<result>>
    /\ fePc' = "returned"

InitFrames ==
    /\ PoolScenesCapOff
    /\ DetmIdle
    /\ ThrdIdle
    /\ SampIdle
    /\ CropIdle
    /\ MergeIdle
    /\ PipeIdle
    /\ ValidIdle
    /\ LogIdle
    /\ ConfIdle
    /\ BatchIdle
    /\ fePc = "check"
    /\ feFrames \in 1..MaxFrames
    /\ feI = 0
    /\ feCancelled = FALSE
    /\ feLatched = FALSE
    /\ feRead = 0
    /\ feWritten = 0
    /\ feClosed = FALSE
    /\ feWaited = FALSE
    /\ feResult = <<>>
    /\ feAtCancel = <<>>
    /\ feAtLatch = <<>>

\* ctx is cancelled (timeout, interrupt)
FrameCtxCancelled ==
    /\ fePc # "returned"
    /\ ~feCancelled
    /\ feCancelled' = TRUE
    /\ feAtCancel' = <<FrameSnapshot>>
    /\ UNCHANGED <<fePc, feFrames, feI, feLatched, feRead, feWritten, feClosed, feWaited,
                   feResult, feAtLatch, frameRest>>

\* the collector latches the failure of a chunk another worker encoded
FrameErrorLatched ==
    /\ fePc # "returned"
    /\ ~feLatched
    /\ feLatched' = TRUE
    /\ feAtLatch' = <<FrameSnapshot>>
    /\ UNCHANGED <<fePc, feFrames, feI, feCancelled, feRead, feWritten, feClosed, feWaited,
                   feResult, feAtCancel, frameRest>>

\* for i := 0; i < frameCount; i++ { if ctx.Err() != nil { ... return } ...
FrameLoopHead ==
    /\ fePc = "check"
    /\ IF feI >= feFrames
       THEN /\ fePc' = "finish"
            /\ UNCHANGED <<feClosed, feWaited, feResult>>
       ELSE IF CancelSeen(feCancelled, feLatched)
       THEN FrameReturn("cancelled")
       ELSE /\ fePc' = "read"
            /\ UNCHANGED <<feClosed, feWaited, feResult>>
    /\ UNCHANGED <<feFrames, feI, feCancelled, feLatched, feRead, feWritten,
                   feAtCancel, feAtLatch, frameRest>>

\* ffms.ExtractFrame
FrameExtract ==
    /\ fePc = "read"
    /\ \/ /\ feRead' = feRead + 1
          /\ fePc' = "write"
          /\ UNCHANGED <<feClosed, feWaited, feResult>>
       \/ /\ FrameReturn("failed to extract frame")
          /\ UNCHANGED feRead
    /\ UNCHANGED <<feFrames, feI, feCancelled, feLatched, feWritten,
                   feAtCancel, feAtLatch, frameRest>>

\* stdin.Write(frameBuf); on an error: break, stdin.Close(), cmd.Wait()
FrameWrite ==
    /\ fePc = "write"
    /\ \/ /\ feWritten' = feWritten + 1
          /\ feI' = feI + 1
          /\ fePc' = "check"
          /\ UNCHANGED <<feClosed, feWaited, feResult>>
       \/ /\ FrameReturn("failed to write frame data")
          /\ UNCHANGED <<feWritten, feI>>
    /\ UNCHANGED <<feFrames, feCancelled, feLatched, feRead,
                   feAtCancel, feAtLatch, frameRest>>

\* after the loop: stdin.Close(), cmd.Wait(), os.Stat(outputPath)
FrameFinish ==
    /\ fePc = "finish"
    /\ \E result \in {"ok", "encoder failed", "failed to stat output"} :
          FrameReturn(result)
    /\ UNCHANGED <<feFrames, feI, feCancelled, feLatched, feRead, feWritten,
                   feAtCancel, feAtLatch, frameRest>>

NextFrames ==
    \/ FrameCtxCancelled
    \/ FrameErrorLatched
    \/ FrameLoopHead
    \/ FrameExtract
    \/ FrameWrite
    \/ FrameFinish

SpecFrames == InitFrames /\ [][NextFrames]_vars

(***************************************************************************)
(* The crop sampler's goroutines: DetectCrop starts one goroutine per      *)
(* sample point; each takes a slot of the semaphore channel, runs one      *)
(* detector subprocess, counts its rectangle under the mutex, gives the    *)
(* slot back and reports to the WaitGroup.  The goroutines differ only in  *)
(* their seek position, so the state counts how many are at each step.     *)
(***************************************************************************)
MaxSamplePoints == 9   \* sample goroutines started (141 in the code)

\* const cropDetectionConcurrency = 8
cropDetectionConcurrency == 8

\* for i := 30; i <= 170; i++ { samplePoints = append(..., float64(i)/200.0) }
firstSamplePoint == 30
lastSamplePoint  == 170
SamplePoints     == firstSamplePoint..lastSamplePoint

\* the position of sample point i in thousandths of the duration
SamplePosition(i) == (i * 1000) \div 200

\* the last value of i the bounded loop reaches
SampleLoopLast == Min(lastSamplePoint, firstSamplePoint + MaxSamplePoints - 1)

\* the frame size of the sampled source
SampleSource == <<8, 6>>

\* the rectangles a detector run can report
SampleRects == {<<8, 4, 0, 1>>, <<6, 6, 1, 0>>}

\* the rectangles of maximal line count in one detector run's output
DetectorOutputs == SUBSET SampleRects

\* a send on sem that never blocks
SemUnbounded(held) == TRUE

\* sem <- struct{}{} can proceed when the channel has room
SemCanSend(held) == held < cropDetectionConcurrency

\* sampleCropAtPosition: "" when no line parsed, else a rectangle of maximal
\* count (map iteration order decides among equals)
sampleCropAtPosition(plurality) ==
    IF plurality = {} THEN {<<>>} ELSE plurality

\* if crop != "" { mu.Lock(); cropCounts[crop]++; mu.Unlock() }
CountSample(counts, crop) ==
    IF crop = <<>> THEN counts ELSE [counts EXCEPT ![crop] = @ + 1]

InitSampler ==
    /\ PoolScenesCapOff
    /\ DetmIdle
    /\ ThrdIdle
    /\ CropIdle
    /\ MergeIdle
    /\ PipeIdle
    /\ ValidIdle
    /\ LogIdle
    /\ ConfIdle
    /\ BatchIdle
    /\ FrameIdle
    /\ spPc = "loop"
    /\ spIn = [width |-> SampleSource[1], height |-> SampleSource[2]]
    /\ spI = firstSamplePoint
    /\ spWaiting = 0
    /\ spAcquired = 0
    /\ spDetecting = 0
    /\ spHolding = 0
    /\ spReleased = 0
    /\ spWg = 0
    /\ spSem = 0
    /\ spCounts = [r \in CropRects |-> 0]
    /\ spYield = [r \in CropRects |-> 0]
    /\ spOut = <<>>

\* wg.Add(1); go func(pos float64) {...}(position)
SamplerSpawn ==
    /\ spPc = "loop"
    /\ spI <= SampleLoopLast
    /\ spWg' = spWg + 1
    /\ spWaiting' = spWaiting + 1
    /\ spI' = spI + 1
    /\ UNCHANGED <<spPc, spIn, spAcquired, spDetecting, spHolding, spReleased,
                   spSem, spCounts, spYield, spOut, sampRest>>

\* the loop over samplePoints ends; wg.Wait() is called
SamplerLoopEnds ==
    /\ spPc = "loop"
    /\ spI > SampleLoopLast
    /\ spPc' = "wait"
    /\ UNCHANGED <<spIn, spI, spWaiting, spAcquired, spDetecting, spHolding,
                   spReleased, spWg, spSem, spCounts, spYield, spOut, sampRest>>

\* sem <- struct{}{}
SampleAcquire ==
    /\ spWaiting > 0
    /\ SemCanSend(spSem)
    /\ spSem' = spSem + 1
    /\ spWaiting' = spWaiting - 1
    /\ spAcquired' = spAcquired + 1
    /\ UNCHANGED <<spPc, spIn, spI, spDetecting, spHolding, spReleased, spWg,
                   spCounts, spYield, spOut, sampRest>>

\* cmd.StderrPipe() or cmd.Start() fails: sampleCropAtPosition returns ""
SampleSpawnFails ==
    /\ spAcquired > 0
    /\ spAcquired' = spAcquired - 1
    /\ spHolding' = spHolding + 1
    /\ spCounts' = CountSample(spCounts, <<>>)
    /\ UNCHANGED <<spPc, spIn, spI, spWaiting, spDetecting, spReleased, spWg,
                   spSem, spYield, spOut, sampRest>>

\* cmd.Start() succeeds: the detector subprocess runs
SampleDetectorStarts ==
    /\ spAcquired > 0
    /\ spAcquired' = spAcquired - 1
    /\ spDetecting' = spDetecting + 1
    /\ UNCHANGED <<spPc, spIn, spI, spWaiting, spHolding, spReleased, spWg,
                   spSem, spCounts, spYield, spOut, sampRest>>

\* the subprocess ends (scanner at EOF, cmd.Wait() returned, its error
\* ignored); the sample's rectangle, if any, is counted
SampleDetectorEnds ==
    /\ spDetecting > 0
    /\ spDetecting' = spDetecting - 1
    /\ spHolding' = spHolding + 1
    /\ \E out \in DetectorOutputs :
          \E crop \in sampleCropAtPosition(out) :
             /\ spCounts' = CountSample(spCounts, crop)
             /\ spYield' = IF crop = <<>> THEN spYield
                           ELSE [spYield EXCEPT ![crop] = @ + 1]
    /\ UNCHANGED <<spPc, spIn, spI, spWaiting, spAcquired, spReleased, spWg,
                   spSem, spOut, sampRest>>

\* defer func() { <-sem }()
SampleRelease ==
    /\ spHolding > 0
    /\ spHolding' = spHolding - 1
    /\ spReleased' = spReleased + 1
    /\ spSem' = spSem - 1
    /\ UNCHANGED <<spPc, spIn, spI, spWaiting, spAcquired, spDetecting, spWg,
                   spCounts, spYield, spOut, sampRest>>

\* defer wg.Done()
SampleDone ==
    /\ spReleased > 0
    /\ spReleased' = spReleased - 1
    /\ spWg' = spWg - 1
    /\ UNCHANGED <<spPc, spIn, spI, spWaiting, spAcquired, spDetecting,
                   spHolding, spSem, spCounts, spYield, spOut, sampRest>>

\* wg.Wait() returns and cropCounts is analysed
SamplerReturn ==
    /\ spPc = "wait"
    /\ spWg = 0
    /\ spOut' \in DetectCropResults(spCounts, spIn.width, spIn.height)
    /\ spPc' = "returned"
    /\ UNCHANGED <<spIn, spI, spWaiting, spAcquired, spDetecting, spHolding,
                   spReleased, spWg, spSem, spCounts, spYield, sampRest>>

NextSampler ==
    \/ SamplerSpawn
    \/ SamplerLoopEnds
    \/ SampleAcquire
    \/ SampleSpawnFails
    \/ SampleDetectorStarts
    \/ SampleDetectorEnds
    \/ SampleRelease
    \/ SampleDone
    \/ SamplerReturn

SpecSampler == InitSampler /\ [][NextSampler]_vars

(***************************************************************************)
(* Threads per worker: EncodeAll fills cfg.LogicalProcessors from the CPU   *)
(* topology and the (cropped) width when it was left at 0.                  *)
(***************************************************************************)
MaxThreadWorkers == 4    \* largest actualWorkers drawn
MaxCores         == 20   \* largest physical core count drawn

ThreadWidths   == {1280, 1919, 1920, 3839, 3840}
ThreadExplicit == {0 - 2, 0, 3, 24}

\* the width tiers compared with > instead of >=
maxThreadsStrict(width) ==
    IF width > 3840 THEN 16 ELSE IF width > 1920 THEN 10 ELSE 6

\* switch { case width >= 3840: 16; case width >= 1920: 10; default: 6 }
maxThreads(width) ==
    IF width >= 3840 THEN 16 ELSE IF width >= 1920 THEN 10 ELSE 6

\* calculateThreadsPerWorker, with util.PhysicalCores() and
\* util.LogicalCores() as arguments
calculateThreadsPerWorker(workers, width, physical, logical) ==
    IF workers <= 0 THEN 1
    ELSE LET hasSMT  == logical > physical
             perWork == physical \div workers
             bonus   == IF hasSMT /\ perWork < maxThreads(width)
                        THEN perWork + 1 ELSE perWork
         IN  Max(1, Min(bonus, maxThreads(width)))

InitThreads ==
    /\ PoolScenesCapOff
    /\ DetmIdle
    /\ SampIdle
    /\ CropIdle
    /\ MergeIdle
    /\ PipeIdle
    /\ ValidIdle
    /\ LogIdle
    /\ ConfIdle
    /\ BatchIdle
    /\ FrameIdle
    /\ thPc = "call"
    /\ \E w \in 0..MaxThreadWorkers, p \in 1..MaxCores, smt \in BOOLEAN,
          width \in ThreadWidths, lp \in ThreadExplicit :
          thIn = [workers |-> w, width |-> width, physical |-> p,
                  logical |-> IF smt THEN 2 * p ELSE p, LogicalProcessors |-> lp]
    /\ thOut = 0

\* if cfg.LogicalProcessors == 0 { cfg.LogicalProcessors = calculateThreadsPerWorker(...) }
EncodeAllThreads ==
    /\ thPc = "call"
    /\ thOut' = IF thIn.LogicalProcessors = 0
                THEN calculateThreadsPerWorker(thIn.workers, thIn.width,
                                               thIn.physical, thIn.logical)
                ELSE thIn.LogicalProcessors
    /\ thPc' = "set"
    /\ UNCHANGED <<thIn, thrdRest>>

NextThreads == EncodeAllThreads

SpecThreads == InitThreads /\ [][NextThreads]_vars

(***************************************************************************)
(* A further run of ProcessChunked on the work directory an earlier run    *)
(* left behind: the merge stage failed, or it completed and a later stage  *)
(* (audio extraction, final mux) failed without creating the output file.  *)
(***************************************************************************)
MaxRetries == 1   \* further runs on the same work directory

\* the chunks EncodeAll still has to encode: those not in done.txt, which
\* lists every chunk once an earlier EncodeAll has returned nil
RetryRemaining(n) ==
    RemainingChunks([i \in 1..n |-> [Idx |-> i - 1]], 0..(n - 1))

\* ProcessChunked is called again: CreateWorkDir finds the directory,
\* EncodeAll finds no remaining chunk and returns, and the merge stage is
\* entered with the encode directory, temp_merge and video.mkv as they are
PipelineRetry ==
    /\ mgPc \in {"failed", "done"}
    /\ mgRuns < MaxRetries
    /\ RetryRemaining(mgN) = <<>>
    /\ mgRuns' = mgRuns + 1
    /\ mgPc' = "merge"
    /\ mgBatch' = 0
    /\ mgStart' = 0
    /\ mgErr' = ""
    /\ UNCHANGED <<mgN, mgDir, mgTemp, mgVideo, mgConcats, mergeRest>>

NextMergeRetry ==
    \/ MergeBegin
    \/ MergeBatchStep
    \/ MergeBatchedFinal
    \/ MergeOutput
    \/ PipelineRetry

SpecMergeRetry == InitMerge /\ [][NextMergeRetry]_vars

(***************************************************************************)
(* internal/processing/crop.go: DetectCrop run twice over the same file,   *)
(* the detector printing the same lines for each sample point in both      *)
(* runs.  A sample's output is the number of lines per rectangle; the      *)
(* sample goroutines of a run finish in any order.                         *)
(***************************************************************************)
MaxDetSamples == 3   \* sample points (141 in the code)
MaxDetLines   == 2   \* lines per rectangle in one sample's output (10 frames in the code)
DetRuns       == 2   \* the runs compared

\* the outputs one detector run can print
DetLineCounts == [SampleRects -> 0..MaxDetLines]

\* for crop, count := range cropCounts { if count > bestCount {...} }: the
\* first rectangle of maximal count in map iteration order, that is, any
\* rectangle of maximal count
Plurality(lines) ==
    {r \in DOMAIN lines : lines[r] > 0 /\ \A q \in DOMAIN lines : lines[q] <= lines[r]}

InitDeterminism ==
    /\ PoolScenesCapOff
    /\ ThrdIdle
    /\ SampIdle
    /\ FrameIdle
    /\ BatchIdle
    /\ CropIdle
    /\ MergeIdle
    /\ PipeIdle
    /\ ValidIdle
    /\ LogIdle
    /\ ConfIdle
    /\ dtPc = "sampling"
    /\ dtLines \in [1..MaxDetSamples -> DetLineCounts]
    /\ dtLeft = 1..MaxDetSamples
    /\ dtCounts = [r \in SampleRects |-> 0]
    /\ dtOut = <<>>

\* one sample goroutine of the run finishes: sampleCropAtPosition over the
\* sample's lines, counted under the mutex
DetSampleDone ==
    /\ dtPc = "sampling"
    /\ \E i \in dtLeft :
          /\ dtLeft' = dtLeft \ {i}
          /\ \E crop \in sampleCropAtPosition(Plurality(dtLines[i])) :
                dtCounts' = CountSample(dtCounts, crop)
    /\ UNCHANGED <<dtPc, dtLines, dtOut, detmRest>>

\* wg.Wait() has returned: the run analyses cropCounts and returns; the
\* next run starts over the same detector output
DetDecide ==
    /\ dtPc = "sampling"
    /\ dtLeft = {}
    /\ \E res \in DetectCropResults(dtCounts, SampleSource[1], SampleSource[2]) :
          dtOut' = Append(dtOut, res)
    /\ IF Len(dtOut) + 1 < DetRuns
       THEN /\ dtLeft' = 1..MaxDetSamples
            /\ dtCounts' = [r \in SampleRects |-> 0]
            /\ UNCHANGED dtPc
       ELSE /\ dtPc' = "done"
            /\ UNCHANGED <<dtLeft, dtCounts>>
    /\ UNCHANGED <<dtLines, detmRest>>

NextDeterminism ==
    \/ DetSampleDone
    \/ DetDecide

SpecDeterminism == InitDeterminism /\ [][NextDeterminism]_vars

(***************************************************************************)
(* Properties                                                              *)
(***************************************************************************)

\* ---- helpers of the properties ----
InitialLog  == SubSeq(doneTxt, 1, logStart)
InitialDone == DoneSet(InitialLog)
Appended    == SubSeq(doneTxt, logStart + 1, Len(doneTxt))
AppendedIdx == {Appended[i].Idx : i \in 1..Len(Appended)}
ChunkOf(idx) == CHOOSE c \in {chunks[i] : i \in 1..Len(chunks)} : c.Idx = idx
SetupFailed == pc = "returned" /\ retErr \in {ErrSetup(what) :
                   what \in {"encode directory", "resume info", "decode strategy"}}
PoolRan     == wpc # <<>>

\* C9: for every total_frames >= 1 and every list of boundaries in
\* [0, total_frames), LoadScenes followed by Chunkify yields N >= 1 chunks
\* with idx 0..N-1 in order, chunk 0 starting at 0, each end equal to the next
\* start, the last end equal to total_frames, and no empty chunk.
C9_Partition ==
    scPc = "done" =>
        LET n == Len(scChunks)
        IN  /\ n >= 1
            /\ \A i \in 1..n : scChunks[i].Idx = i - 1
            /\ scChunks[1].Start = 0
            /\ \A i \in 1..(n - 1) : scChunks[i].End = scChunks[i + 1].Start
            /\ scChunks[n].End = scTotal
            /\ \A i \in 1..n : Frames(scChunks[i]) >= 1

\* C9 witness: an unsorted scene file with a duplicate and no leading 0 has
\* been cut into three chunks.
C9_Witness ==
    /\ scPc = "done"
    /\ scTotal = 4
    /\ scNums = <<2, 1, 2>>
    /\ scChunks = <<[Idx |-> 0, Start |-> 0, End |-> 1],
                    [Idx |-> 1, Start |-> 1, End |-> 2],
                    [Idx |-> 2, Start |-> 2, End |-> 4]>>

\* C10 (as claimed): CapWorkers returns W = clamp(floor(available * 0.70 /
\* class), 1, W_req), and wasCapped is true exactly when W < W_req.
C10_CapWorkersIsExactClamp ==
    cwPc = "done" =>
        LET class == memoryPerWorker(cwIn.dims[1], cwIn.dims[2])
            exact == (7 * cwIn.available) \div (10 * class)
            W     == Min(Max(exact, 1), cwIn.requested)
        IN  cwOut = <<W, W < cwIn.requested>>

RECURSIVE FramesOfSet(_)
FramesOfSet(S) ==
    IF S = {} THEN 0
    ELSE LET x == CHOOSE y \in S : TRUE
         IN  Frames(ChunkOf(x)) + FramesOfSet(S \ {x})

Complete    == InitialDone \cup succeeded
AllComplete == PlanIdx \subseteq Complete
RemainingIdx == {remaining[i].Idx : i \in 1..Len(remaining)}

\* Chunks holding a permit: the one the dispatcher is about to enqueue, those
\* queued in chunkChan, those being encoded
InFlight ==
    (IF dpc = "send" THEN 1 ELSE 0) + Len(chunkChan)
        + Cardinality({w \in DOMAIN wpc : wpc[w] = "encode"})

LeqProgress(p, q) ==
    /\ p.ChunksComplete <= q.ChunksComplete
    /\ p.FramesComplete <= q.FramesComplete
    /\ p.BytesComplete <= q.BytesComplete

\* C1: a run of EncodeAll never encodes a chunk whose index occurs in
\* done.txt; a run without failure or cancellation encodes exactly the plan's
\* chunks whose index is not in the log; and when no chunk remains EncodeAll
\* returns success without starting any worker or encoder.
C1_ResumeSkipsDone ==
    /\ started \cap InitialDone = {}
    /\ (pc = "returned" /\ retErr = Nil /\ ~cancelled) =>
           /\ started = PlanIdx \ InitialDone
           /\ succeeded = started
    /\ (pc = "returned" /\ PlanIdx \subseteq InitialDone /\ ~SetupFailed) =>
           /\ retErr = Nil
           /\ ~PoolRan
           /\ started = {}

\* C1 witness: a resumed run over Done = {0, 2} has returned success having
\* encoded chunk 1 only.
C1_Witness ==
    /\ pc = "returned" /\ retErr = Nil /\ ~cancelled
    /\ InitialDone = {0, 2}
    /\ started = {1} /\ succeeded = {1}

\* C2 (as claimed): EncodeAll returns a nil error only when every chunk of
\* the plan is complete, and whenever cancellation was signalled while some
\* chunk was still unencoded it returns a non-nil error.
C2_NilOnlyWhenComplete ==
    pc = "returned" =>
        /\ retErr = Nil => AllComplete
        /\ (cancelled /\ ~AllComplete) => retErr # Nil

\* C3: for any number of failures the latched error slot is written exactly
\* once (later failures never overwrite it) and EncodeAll returns exactly the
\* first error passed to setError.
C3_FirstErrorLatched ==
    /\ latchWrites <= 1
    /\ latchCalls >= 1 => latchWrites = 1
    /\ encodeErr = firstErr
    /\ (pc = "returned" /\ PoolRan) => retErr = firstErr

\* C3 witness: three failures were offered to setError, and EncodeAll returned
\* the first of them, the failure of chunk 1.
C3_Witness ==
    /\ pc = "returned"
    /\ latchCalls >= 3
    /\ firstErr = ErrChunk(1)
    /\ retErr = ErrChunk(1)

C5_DoneIffLoggedAndFileExists ==
    (pc \in {"wait", "collect", "returned"} /\ started = {}
        /\ retErr \notin {ErrSetup("encode directory"), ErrSetup("resume info")}) =>
        \A idx \in PlanIdx :
            (idx \notin RemainingIdx) <=> (idx \in InitialDone /\ idx \in ivf)

\* C6: within one run ChunksComplete, FramesComplete and BytesComplete never
\* decrease, and the snapshots handed to successive progress callbacks are
\* non-decreasing in every component.
C6_ProgressMonotone ==
    [][/\ LeqProgress(progress, progress')
       /\ (cbCount > 0 /\ cbCount' # cbCount) => LeqProgress(lastCb, lastCb')]_vars

\* C6 witness: two callbacks have been delivered and the later chunk completed
\* first (chunk 2 before chunk 0).
C6_Witness ==
    /\ cbCount = 2
    /\ Len(Appended) = 2
    /\ Appended[1].Idx = 2 /\ Appended[2].Idx = 0
    /\ lastCb.ChunksComplete = 2

\* C7 (as claimed): for every resume log GetResume accepts, at start and at
\* every progress callback ChunksComplete <= ChunksTotal and FramesComplete <=
\* FramesTotal, the initial values being |Done| and the sum of frames(c) over
\* the chunks in Done.
C7_ProgressBounded ==
    PoolRan =>
        /\ progress.ChunksComplete <= progress.ChunksTotal
        /\ progress.FramesComplete <= progress.FramesTotal
        /\ cbCount > 0 =>
               /\ lastCb.ChunksComplete <= lastCb.ChunksTotal
               /\ lastCb.FramesComplete <= lastCb.FramesTotal
        /\ cbCount = 0 =>
               /\ progress.ChunksComplete = Cardinality(InitialDone)
               /\ progress.FramesComplete = FramesOfSet(InitialDone)

\* C8: at every point of a run the number of in-flight chunks (a permit was
\* acquired for the chunk and not yet released) is at most
\* max(W + buffer, 1), W being the effective worker count.
C8_InFlightBounded ==
    PoolRan => InFlight <= Max(actualWorkers + cfgBuffer, 1)

\* C8 witness: the permits are exhausted (one chunk being encoded by the only
\* worker, none buffered) while the dispatcher waits for a permit for a
\* further chunk.
C8_Witness ==
    /\ PoolRan
    /\ actualWorkers = 1 /\ cfgBuffer = 0
    /\ InFlight = 1
    /\ sem = 0
    /\ dpc = "acquire"
    /\ di <= Len(remaining)
    /\ wpc[1] = "encode"

\* ---- helpers of C11 ----
CropDistinct   == CropSeen(crCounts)
CropSuccessful == CropTotal(crCounts, CropDistinct)
CropDiffers(r) == <<r[1], r[2]>> # <<crIn.width, crIn.height>>
CropTop        == CHOOSE r \in CropDistinct : \A q \in CropDistinct : crCounts[q] <= crCounts[r]

\* C11: DetectCrop requires a crop iff (a) exactly one distinct rectangle
\* was seen and its (w,h) differs from the source, or (b) two or more were
\* seen, the most common one's share of the successful samples is strictly
\* greater than 0.80 (5 * count > 4 * total) and its (w,h) differs from the
\* source; the rectangle returned is then the most common one; with no
\* rectangle, or crop disabled, no crop is required.
C11_CropDecision ==
    crPc = "returned" =>
        LET caseA == /\ Cardinality(CropDistinct) = 1
                     /\ CropDiffers(CropTop)
            caseB == /\ Cardinality(CropDistinct) >= 2
                     /\ 5 * crCounts[CropTop] > 4 * CropSuccessful
                     /\ CropDiffers(CropTop)
        IN  /\ crOut.Required <=> (~crIn.disableCrop /\ (caseA \/ caseB))
            /\ crOut.Required => crOut.CropFilter = CropTop
            /\ (crIn.disableCrop \/ CropDistinct = {}) => ~crOut.Required

\* a crop decided on a dominant rectangle among several
C11_Witness ==
    /\ crPc = "returned"
    /\ Cardinality(CropDistinct) >= 2
    /\ crOut.Required
    /\ crOut.CropFilter = <<8, 4, 0, 1>>

\* ---- helpers of C12 ----
MergeRuns(kind) == {i \in 1..Len(mgConcats) : mgConcats[i].kind = kind}
MergeBatches    == (mgN + batchSize - 1) \div batchSize
Ascending(s)    == \A k \in 1..Len(s) : s[k] = k - 1

\* C12: the merged stream holds every chunk exactly once in ascending index
\* order.  For N <= 500 one concatenation over all N chunk files, in index
\* order, is run; for N > 500 batch b concatenates the chunk files
\* 500*b .. min(500*(b+1), N)-1 in index order, ceil(N/500) intermediates
\* are produced, one concatenation takes the intermediates in batch order,
\* and the per-chunk files are then gone.
C12_MergeCoverageAndOrder ==
    /\ \A i \in MergeRuns("batch") :
          LET r == mgConcats[i]
          IN  /\ r.first = batchSize * (i - 1)
              /\ r.count = Min(batchSize * i, mgN) - r.first
              /\ r.out = BatchPath(i - 1)
              /\ \A k \in 1..r.count : r.inputs[k] = IVFPath(r.first + k - 1)
    /\ mgPc \in {"output", "done"} /\ mgN > batchSize =>
          /\ Cardinality(MergeRuns("batch")) = MergeBatches
          /\ MergeRuns("final") = {MergeBatches + 1}
          /\ mgConcats[MergeBatches + 1].inputs = [b \in 1..MergeBatches |-> BatchPath(b - 1)]
          /\ DOMAIN mgDir = {IVFPath(0)}
          /\ Len(mgDir[IVFPath(0)]) = mgN /\ Ascending(mgDir[IVFPath(0)])
    /\ mgPc = "done" =>
          /\ Len(mgVideo) = mgN /\ Ascending(mgVideo)
          /\ Cardinality(MergeRuns("output")) = 1
          /\ mgN <= batchSize =>
                /\ Len(mgConcats) = 1
                /\ mgConcats[1].inputs = [k \in 1..mgN |-> IVFPath(k - 1)]

\* a batched merge of the largest plan has finished
C12_Witness ==
    /\ mgPc = "done"
    /\ mgN = MaxMergeChunks
    /\ Cardinality(MergeRuns("batch")) = 3
    /\ Len(mgVideo) = mgN

\* C13: ProcessChunked removes the work directory if and only if the
\* pipeline completed successfully (it returned no error); on every failure
\* path the work directory is left in place.
C13_CleanupIffSuccess ==
    ppPc = "returned" =>
        /\ ppRet = Nil => ppWorkDir = "removed"
        /\ ppRet # Nil => ppWorkDir # "removed"

\* ---- helpers of C19 ----
StageRank(stage) ==
    CASE stage \in {"indexing", "cropping"} -> 1
      [] stage = "planning"                 -> 2
      [] stage = "admission"                -> 3
      [] stage \in {"encoding", "audio"}    -> 4
      [] stage = "merging"                  -> 5
      [] stage = "remuxing"                 -> 6
PipeStarts   == {i \in 1..Len(ppLog) : ppLog[i][1] = "start"}
PipeFails    == {i \in 1..Len(ppLog) : ppLog[i][1] = "fail"}
PipeStarted(stage) == \E i \in PipeStarts : ppLog[i][2] = stage

\* C19: the stages start in the order indexing+cropping -> planning ->
\* admission -> encoding+audio -> merging -> remuxing; planning starts only
\* after indexing and crop detection have both finished; a stage starts only
\* after its predecessor succeeded (merging only after the audio extraction
\* running beside the encode has succeeded); after any stage has failed no
\* stage starts; the error returned is the one of the first failure.
C19_PipelineStateMachine ==
    /\ \A i, j \in PipeStarts :
          i < j => /\ StageRank(ppLog[i][2]) <= StageRank(ppLog[j][2])
                   /\ ppLog[i][2] # ppLog[j][2]
    /\ PipeStarted("planning") => ppIdx = "ok" /\ ppCrop = "done"
    /\ \A j \in PipeStarts :
          ppLog[j][2] = "merging" /\ ppHasAudio =>
              \E i \in 1..(j - 1) : ppLog[i] = OkOf("audio")
    /\ \A i \in PipeFails : \A j \in PipeStarts : j < i
    /\ ppPc = "returned" =>
          IF PipeFails = {} THEN ppRet = Nil
          ELSE LET first == CHOOSE i \in PipeFails : \A k \in PipeFails : i <= k
               IN  ppRet # Nil /\ ppRet[1] = ppLog[first][2]

C15_LogRoundTrip ==
    /\ ~rlTorn => GetResume(rlExists, rlFile) = rlAppended
    /\ ~rlExists => GetResume(rlExists, rlFile) = <<>>
    /\ \A comp \in LogRecords : GetResume(TRUE, DoneLine(comp)) = <<comp>>

\* three records, one of them with a two-digit index, appended and read back
C15_Witness ==
    /\ ~rlTorn
    /\ Len(rlAppended) = MaxLogAppends
    /\ \E i \in 1..Len(rlAppended) : rlAppended[i].Idx = 12
    /\ rlLoaded = rlAppended

\* C16: with the final record of done.txt cut short at any character by a
\* crash, and after any further complete appends behind the torn text, every
\* index in the Done set GetResume yields is the index of a chunk that was
\* encoded (one AppendDone was called for): the torn text never makes an
\* un-encoded chunk count as done.
C16_TornLineSkipped ==
    DoneSet(GetResume(rlExists, rlFile)) \subseteq rlEncoded

\* ---- helpers of C17 ----
\* workers inside encodeChunkStreaming: each holds its one frame buffer and
\* one running encoder process
LiveEncoders == {w \in DOMAIN wpc : wpc[w] = "encode"}

\* C17: at every point of a run the number of simultaneously live frame
\* buffers (running encoder processes) is at most the effective worker
\* count W, each worker holding exactly one chunk while it encodes and none
\* otherwise, whatever the number of permits or queued chunks.
C17_LiveBuffersBounded ==
    PoolRan =>
        /\ Cardinality(LiveEncoders) <= actualWorkers
        /\ Cardinality(DOMAIN wpc) = actualWorkers
        /\ \A w \in DOMAIN wpc : (wpc[w] = "encode") <=> (wch[w] # NoChunk)

\* C17 witness: W = 2 encoders run at once while a third chunk, holding a
\* permit, waits in the queue
C17_Witness ==
    /\ PoolRan
    /\ actualWorkers = 2
    /\ Cardinality(LiveEncoders) = 2
    /\ Len(chunkChan) = 1
    /\ permits > actualWorkers

\* ---- helpers of C18 ----
\* EncodeAll has returned after starting its goroutines
PoolReturned == PoolRan /\ pc = "returned"

\* the dispatcher has closed the queue, all workers have exited, the
\* collector has drained the results channel and finished
PoolJoined ==
    /\ dpc = "done" /\ chunkClosed
    /\ \A w \in DOMAIN wpc : wpc[w] = "done"
    /\ cpc = "done" /\ resultClosed /\ resultChan = <<>>

\* C18: with every encoder process and frame decode terminating, EncodeAll
\* eventually returns in every interleaving (success, chunk failure, decoder
\* source failure, cancellation at any point); the results channel never
\* holds more than its capacity, so no send on it blocks; and when EncodeAll
\* returns the dispatcher has closed the queue, all workers have exited and
\* the collector has drained and finished.
C18_TerminatesAndJoins ==
    /\ <>(pc = "returned")
    /\ [](PoolRan => Len(resultChan) <= Len(remaining) /\ Len(chunkChan) <= permits)
    /\ [](PoolReturned => PoolJoined)

\* C18 witness: EncodeAll has returned a latched error after a cancellation,
\* with both workers started and everything joined
C18_Witness ==
    /\ PoolReturned
    /\ PoolJoined
    /\ cancelled
    /\ retErr # Nil
    /\ actualWorkers = 2
    /\ started # {}

\* ---- helpers of C20 ----
\* the settings as given are outside the documented ranges
OutOfRange(c) ==
    \/ c.SVTAV1Preset > 13
    \/ c.CRFSD > 63 \/ c.CRFHD > 63 \/ c.CRFUHD > 63
    \/ c.Workers < 1
    \/ c.ChunkBuffer < 0
    \/ \E d \in {c.ChunkDurationSD, c.ChunkDurationHD, c.ChunkDurationUHD} :
          d < 1000 \/ d > 120000

\* C20: a configuration with preset > 13, any CRF > 63, workers < 1, chunk
\* buffer < 0 or any chunk duration outside [1, 120] seconds is rejected with
\* an error and no work is started for it; every configuration inside those
\* ranges is accepted.
C20_InvalidConfigRejected ==
    cfPc \in {"accepted", "returned"} =>
        /\ OutOfRange(cfGiven) => (cfErr # Nil /\ ~cfWork)
        /\ ~OutOfRange(cfGiven) => cfErr = Nil

\* ---- helpers of C21 ----
\* the inputs whose encode succeeded, in the order they were reached
EncodedInputs == SelectSeq([i \in 1..Len(bvLog) |-> <<i, bvLog[i]>>],
                           LAMBDA e : e[2] \in {"valid", "validation failed"})

\* C21: a probe failure or encode failure of one input does not stop the
\* batch: when ProcessVideos leaves its loop every input has been reached
\* unless cancellation was signalled; the results hold exactly the inputs
\* whose encode succeeded, in order, a failed validation kept and marked;
\* and in the batch summary SuccessfulCount = number of results and
\* ValidationPassedCount + ValidationFailedCount = SuccessfulCount <= TotalFiles.
C21_BatchIsolation ==
    /\ bvPc \in {"summary", "returned"} =>
          /\ ~bvCancelled => Len(bvLog) = bvN
          /\ Len(bvResults) = Len(EncodedInputs)
          /\ \A k \in 1..Len(bvResults) :
                /\ bvResults[k].Filename = EncodedInputs[k][1]
                /\ bvResults[k].ValidationPassed = (EncodedInputs[k][2] = "valid")
    /\ bvSummary # Nil =>
          /\ bvSummary.SuccessfulCount = Len(bvResults)
          /\ bvSummary.ValidationPassedCount + bvSummary.ValidationFailedCount
                 = bvSummary.SuccessfulCount
          /\ bvSummary.SuccessfulCount <= bvSummary.TotalFiles
          /\ bvSummary.ValidationPassedCount
                 = Cardinality({k \in 1..Len(bvResults) : bvResults[k].ValidationPassed})

\* C21 witness: the first input fails, the later two are encoded, one of
\* them failing validation, and the summary counts them
C21_Witness ==
    /\ bvPc = "returned"
    /\ ~bvCancelled
    /\ bvLog = <<"encode failed", "validation failed", "valid">>
    /\ bvSummary # Nil
    /\ bvSummary.ValidationFailedCount = 1

\* C22 (as stated): a permit is released only after the collector has
\* observed the chunk's result: every chunk whose result the collector has
\* not yet taken (about to be enqueued, queued, being encoded, or with its
\* result waiting in the results channel) still holds its permit.
C22_PermitHeldUntilObserved ==
    PoolRan => permits - sem >= InFlight + Len(resultChan)

\* C22 (amended): the permit of a chunk is held exactly while the chunk is
\* about to be enqueued, queued or being encoded; the worker releases it
\* when it is done with the chunk, before the result reaches the collector.
C22_PermitHeldWhileInWork ==
    PoolRan => permits - sem = InFlight

\* C22 witness: a chunk was encoded, its result waits in the results channel
\* for the collector, and every permit is back in the semaphore
C22_Witness ==
    /\ PoolRan
    /\ resultChan # <<>>
    /\ Head(resultChan).Error = Nil
    /\ sem = permits
    /\ cpc = "recv"

\* ---- helpers of C23 and C26 ----
\* ctx was cancelled while the worker still had a frame of the chunk to
\* decode or to write
CancelledMidChunk ==
    /\ feAtCancel # <<>>
    /\ feAtCancel[1].pc \in {"check", "read", "write"}
    /\ feAtCancel[1].written < feFrames

FramesReadSince(at)    == feRead - at[1].read
FramesWrittenSince(at) == feWritten - at[1].written

\* C23 (as stated): after cancellation is signalled a worker in the middle
\* of a chunk decodes and writes at most one further frame, then closes the
\* encoder's input, waits for the encoder to exit and reports a Cancelled
\* result for that chunk (the failure of that one frame, should it fail to
\* decode or to write, is let pass as the result).
C23_CancelledWithinOneFrame ==
    /\ feAtCancel # <<>> =>
          FramesReadSince(feAtCancel) <= 1 /\ FramesWrittenSince(feAtCancel) <= 1
    /\ (fePc = "returned" /\ CancelledMidChunk) =>
          /\ feClosed /\ feWaited
          /\ feResult \in {<<"cancelled">>, <<"failed to extract frame">>,
                            <<"failed to write frame data">>}

\* C23 (amended): the signal is checked once per frame, before the read.
\* After cancellation the worker decodes and writes at most one further
\* frame; it always closes the encoder's input and waits for the encoder
\* before it returns; a cancellation seen at a loop head gives the Cancelled
\* result; if the one further frame fails to decode or to write, that failure
\* is the result, and if it was the last frame of the chunk the chunk is
\* finished as if no cancellation had happened.
C23_CancelSeenAtNextLoopHead ==
    /\ feAtCancel # <<>> =>
          FramesReadSince(feAtCancel) <= 1 /\ FramesWrittenSince(feAtCancel) <= 1
    /\ fePc = "returned" => feClosed /\ feWaited
    /\ (fePc = "returned" /\ CancelledMidChunk) =>
          \/ feResult = <<"cancelled">>
          \/ /\ feResult \in {<<"failed to extract frame">>, <<"failed to write frame data">>}
             /\ feAtCancel[1].pc \in {"read", "write"}
          \/ /\ feWritten = feFrames
             /\ feAtCancel[1].pc \in {"read", "write"}
             /\ feAtCancel[1].i = feFrames - 1
    /\ feResult = <<"cancelled">> => feCancelled /\ feWritten < feFrames

\* C23 witness: cancelled between the loop head and the read of the second
\* frame; that frame is decoded and written, then the Cancelled result
C23_Witness ==
    /\ fePc = "returned"
    /\ feResult = <<"cancelled">>
    /\ feAtCancel # <<>>
    /\ feAtCancel[1].pc = "read"
    /\ feAtCancel[1].i = 1
    /\ FramesReadSince(feAtCancel) = 1
    /\ FramesWrittenSince(feAtCancel) = 1
    /\ feClosed /\ feWaited

\* C26: once a chunk's failure is latched, every other chunk that is being
\* encoded at that moment stops at its next frame boundary: its worker
\* decodes at most one further frame and does not encode it to completion.
C26_LatchStopsInFlightChunks ==
    feAtLatch # <<>> /\ ~feCancelled => FramesReadSince(feAtLatch) <= 1

\* C24: cancellation is sticky for dispatch: in no step taken after the
\* cancellation signal has fired does the dispatcher put a chunk into the
\* chunk queue.
C24_NoEnqueueAfterCancel ==
    [][cancelled => Len(chunkChan') <= Len(chunkChan)]_vars

\* ---- helpers of C25 ----
\* an error is latched or the cancellation has been signalled
Stopping == cancelled \/ encodeErr # Nil

\* the chunks recorded in done.txt during this run
RecordedInRun == {doneTxt[k].Idx : k \in (logStart + 1)..Len(doneTxt)}

CropTopDominant == 5 * crCounts[CropTop] > 4 * CropSuccessful
CropFlagged     == ~crOut.Required /\ crOut.MultipleRatios /\ crOut.CropFilter = <<>>

\* C27 as stated: whenever two or more distinct rectangles were detected and
\* the crop rule does not apply (the most common share is not above 0.80, or
\* that rectangle is the source rectangle), DetectCrop returns no crop with
\* the multiple-aspect-ratios flag set; the flag is never set when a crop is
\* required or when at most one distinct rectangle was detected.
C27_FlagWheneverRuleFails ==
    crPc = "returned" =>
        /\ (Cardinality(CropDistinct) >= 2 /\ ~(CropTopDominant /\ CropDiffers(CropTop)))
              => CropFlagged
        /\ crOut.MultipleRatios => (~crOut.Required /\ Cardinality(CropDistinct) >= 2)

\* C27 amended: the multiple-aspect-ratios flag is set exactly when two or
\* more distinct rectangles were detected and the most common one's share is
\* not above 0.80, and the result is then no crop; when the most common
\* rectangle's share is above 0.80 and it is the source rectangle, DetectCrop
\* returns no crop without the flag; the flag is never set when a crop is
\* required or when at most one distinct rectangle was detected.
C27_FlagIffNoDominant ==
    crPc = "returned" =>
        /\ crOut.MultipleRatios <=> (Cardinality(CropDistinct) >= 2 /\ ~CropTopDominant)
        /\ crOut.MultipleRatios => CropFlagged
        /\ (Cardinality(CropDistinct) >= 2 /\ CropTopDominant /\ ~CropDiffers(CropTop))
              => (~crOut.Required /\ ~crOut.MultipleRatios)

\* two rectangles seen, neither above 0.80 of the successful samples, and
\* the flagged result returned
C27_Witness ==
    /\ crPc = "returned"
    /\ Cardinality(CropDistinct) = 2
    /\ ~CropTopDominant
    /\ CropFlagged

\* ---- helpers of C28 ----
SamplesStarted  == spI - firstSamplePoint
SamplesFinished == SamplesStarted - spWg
SamplesInFlight == spWaiting + spAcquired + spDetecting + spHolding + spReleased

\* C28: the sample points are the 141 positions 15% .. 85% of the duration
\* in 0.5% steps and every one of them is attempted; at most 8 detector
\* subprocesses run at the same time; every sample that acquired the
\* semaphore has released it by the time it finishes; a sample that fails
\* or yields no rectangle adds nothing to the counts (the counts equal the
\* rectangles the detectors reported) and the sampler still returns a
\* result; DetectCrop returns only after every started sample has finished.
C28_SamplerConcurrency ==
    /\ Cardinality(SamplePoints) = 141
    /\ {SamplePosition(i) : i \in SamplePoints} = {150 + 5 * k : k \in 0..140}
    /\ spDetecting <= cropDetectionConcurrency
    /\ spSem = spAcquired + spDetecting + spHolding
    /\ spSem <= cropDetectionConcurrency
    /\ spWg = SamplesInFlight
    /\ spCounts = spYield
    /\ spPc \in {"wait", "returned"} => spI = SampleLoopLast + 1
    /\ spPc = "returned" =>
          /\ SamplesFinished = SampleLoopLast - firstSamplePoint + 1
          /\ SamplesInFlight = 0
          /\ spSem = 0
          /\ spOut \in DetectCropResults(spYield, spIn.width, spIn.height)

\* every slot of the semaphore taken, a detector running in each, and a
\* further sample waiting for a slot
C28_Witness ==
    /\ spDetecting = cropDetectionConcurrency
    /\ spWaiting >= 1
    /\ \E r \in SampleRects : spCounts[r] = 0

\* the sampler has returned although some samples failed
C28_WitnessReturned ==
    /\ spPc = "returned"
    /\ CropTotal(spCounts, CropSeen(spCounts)) < SamplesFinished

\* ---- helpers of C29 ----
Clamp(x, lo, hi) == IF x < lo THEN lo ELSE IF x > hi THEN hi ELSE x
TMax(width) ==
    IF width < 1920 THEN 6 ELSE IF width < 3840 THEN 10 ELSE 16

\* C29: for W >= 1, when the thread count is not set explicitly the threads
\* per worker are clamp(floor(physical / W) + (1 if logical > physical else
\* 0), 1, T_max(width)) with T_max = 6 for width < 1920, 10 for 1920 <=
\* width < 3840 and 16 for width >= 3840; an explicitly configured non-zero
\* thread count is kept unchanged.
C29_ThreadsPerWorker ==
    thPc = "set" =>
        /\ (thIn.LogicalProcessors = 0 /\ thIn.workers >= 1) =>
              thOut = Clamp((thIn.physical \div thIn.workers)
                              + (IF thIn.logical > thIn.physical THEN 1 ELSE 0),
                            1, TMax(thIn.width))
        /\ thIn.LogicalProcessors # 0 => thOut = thIn.LogicalProcessors

\* an SMT machine whose per-worker share already reaches the 1920-wide
\* tier's maximum: the extra thread is clamped away
C29_Witness ==
    /\ thPc = "set"
    /\ thIn.LogicalProcessors = 0
    /\ thIn.width = 1920
    /\ thIn.workers = 2
    /\ thIn.logical > thIn.physical
    /\ thIn.physical \div thIn.workers = 10
    /\ thOut = 10

\* ---- helpers of C30 ----
\* the encode directory as a successful batched merge leaves it
BatchedMergeDone == mgN > batchSize /\ DOMAIN mgDir = {IVFPath(0)}
\* the files the batch about to be merged lists
NextBatchList ==
    [k \in 1..(Min(mgStart + batchSize, mgN) - mgStart) |-> IVFPath(mgStart + k - 1)]

\* C30: after a successful batched merge (N > 500) has deleted the per-chunk
\* files and renamed the merged intermediate into the 0000 slot, a retry of
\* the pipeline on the same work directory finds a consistent encode
\* directory (every file a merge step lists exists) and, when it completes
\* the merge, video.mkv holds the same content, chunks 0..N-1 in order; no
\* chunk is encoded again.
C30_RetryAfterBatchedMerge ==
    mgRuns > 0 =>
        /\ RetryRemaining(mgN) = <<>>
        /\ (BatchedMergeDone /\ mgPc = "batch") => AllExist(mgDir, NextBatchList)
        /\ mgPc = "done" => mgVideo = [k \in 1..mgN |-> k - 1]

\* ---- helpers of C31 ----
\* the errors of the merge stage that report a concatenator's non-zero exit
ConcatExitErrors == {"batch merge failed", "final merge failed", "ffmpeg concat failed"}
ChunkFilesKept   == \A i \in 0..(mgN - 1) : IVFPath(i) \in DOMAIN mgDir
BatchOutputsKept ==
    \A i \in MergeRuns("batch") : mgConcats[i].out \in DOMAIN mgTemp

\* C31 as stated: if a batch merge, the merge of the intermediates or the
\* final concat exits non-zero, the merge returns an error, video.mkv is
\* not produced for the remux, no per-chunk file has been deleted and the
\* intermediate outputs produced so far are left in place.
C31_MergeFailureKeepsEverything ==
    mgErr \in ConcatExitErrors =>
        /\ mgPc = "failed"
        /\ mgVideo = <<>>
        /\ ChunkFilesKept = TRUE
        /\ BatchOutputsKept = TRUE

\* C31 amended: if a batch merge or the merge of the intermediates exits
\* non-zero, the merge returns an error, video.mkv is not produced, no
\* per-chunk file has been deleted and the batch outputs produced so far
\* are left in temp_merge; if the final concat exits non-zero the merge
\* returns an error and video.mkv is not produced, and the per-chunk files
\* are all still there when N <= 500, while for N > 500 the batched merge
\* that succeeded before it has already deleted them and removed
\* temp_merge, leaving the whole stream in 0000.ivf.
C31_MergeFailureKeepsInputs ==
    /\ mgErr \in ConcatExitErrors => (mgPc = "failed" /\ mgVideo = <<>>)
    /\ mgErr \in {"batch merge failed", "final merge failed"} =>
          (ChunkFilesKept = TRUE /\ BatchOutputsKept = TRUE)
    /\ (mgErr = "ffmpeg concat failed" /\ mgN <= batchSize) => ChunkFilesKept = TRUE
    /\ (mgErr = "ffmpeg concat failed" /\ mgN > batchSize) =>
          /\ DOMAIN mgDir = {IVFPath(0)}
          /\ mgDir[IVFPath(0)] = [k \in 1..mgN |-> k - 1]
          /\ mgTemp = <<>>

\* the second batch merge failed after the first had produced its output
C31_Witness ==
    /\ mgErr = "batch merge failed"
    /\ mgBatch = 1
    /\ BatchPath(0) \in DOMAIN mgTemp
    /\ mgN > batchSize

\* ---- helpers of C32 ----
PipeFailed(stage) == \E i \in PipeFails : ppLog[i][2] = stage

\* C32: the worker pool and the audio extraction are started together; the
\* final remux starts only after the worker pool succeeded, the merge
\* succeeded and the audio extraction (when the source has audio) has
\* completed successfully; an audio-extraction error prevents the remux and
\* fails the input.
C32_Phase2Dependencies ==
    /\ PipeStarted("encoding") =>
          (ppHasAudio <=> PipeStarted("audio"))
    /\ PipeStarted("remuxing") =>
          /\ PipeStarted("merging")
          /\ ~PipeFailed("encoding")
          /\ ~PipeFailed("merging")
          /\ ppPc \notin {"encoding", "merging", "mergeOutput", "awaitAudio", "joinAudio"}
          /\ ppAudio = "ok"
          /\ ppHasAudio => \E i \in 1..Len(ppLog) : ppLog[i] = OkOf("audio")
    /\ ppAudio = "fail" =>
          /\ ~PipeStarted("remuxing")
          /\ ppPc = "returned" => ppRet # Nil

\* the remux has started for a source with audio, whose extraction ran
\* beside the worker pool and succeeded
C32_Witness ==
    /\ ppPc = "remuxing"
    /\ ppHasAudio
    /\ \E i, j, k \in 1..Len(ppLog) :
          /\ i < j /\ j < k
          /\ ppLog[i] = StartOf("encoding")
          /\ ppLog[j] = StartOf("merging")
          /\ ppLog[k] = OkOf("audio")

\* C38: once the audio extraction has been started ProcessChunked never
\* returns while its goroutine is still running: on every exit path after
\* the start (encode failure, batched-merge failure, concat failure,
\* success) the audio task has finished before the return, and the audio
\* error becomes the returned error only after that wait.
C38_ReturnsAfterAudio ==
    /\ ppPc \in {"return", "returned"} => ppAudio # "run"
    /\ ppPc \in {"remuxing"} => ppAudio # "run"
    /\ ppErr = StageError("audio", "ExtractAudio") => ppAudio = "fail"
    /\ (PipeStarted("audio") /\ ppPc = "returned") =>
          \E i \in 1..Len(ppLog) : ppLog[i] \in {OkOf("audio"), FailOf("audio")}

\* the encode failed while the audio extraction was still running, and
\* ProcessChunked returned after the extraction had finished
C38_Witness ==
    /\ ppPc = "returned"
    /\ ppRet = StageError("encoding", "EncodeAll")
    /\ \E i, j \in 1..Len(ppLog) :
          /\ i < j
          /\ ppLog[i] = FailOf("encoding")
          /\ ppLog[j] \in {OkOf("audio"), FailOf("audio")}

\* C33: for every combination of tooling available or not, expectation
\* given or not and detected status known or not, the HDR check passes
\* exactly when the HDR tooling is unavailable, or no expectation was given,
\* or the expectation and the detected classification are both known and
\* equal; with tooling available and an expectation given it fails when the
\* classification differs or cannot be detected.
C33_HDRCheck ==
    vlIn.mediainfo # "unset" =>
        /\ vlRes.IsHDRCorrect <=>
              \/ vlIn.mediainfo = "missing"
              \/ vlOpts.hdr = "nil"
              \/ (vlOpts.hdr # "nil" /\ vlIn.actualHDR # "nil" /\ vlOpts.hdr = vlIn.actualHDR)
        /\ (vlIn.mediainfo = "available" /\ vlOpts.hdr # "nil" /\ vlIn.actualHDR # vlOpts.hdr)
              => ~vlRes.IsHDRCorrect

\* tooling available, HDR expected, classification not detected: the check
\* has failed
C33_Witness ==
    /\ vlPc = "audio"
    /\ vlIn.mediainfo = "available"
    /\ vlOpts.hdr = "hdr"
    /\ vlIn.actualHDR = "nil"
    /\ ~vlRes.IsHDRCorrect

\* ---- helpers of C34 ----
AudioCheckPassed == vlRes.IsAudioOpus /\ vlRes.IsAudioTrackCountCorrect
ExpectedTracksMet ==
    vlIn.expectedTracks # NoTrackCount => Len(vlIn.streams) = vlIn.expectedTracks

\* C34: for every outcome of probing the output's audio tracks, a failed
\* probe included, the audio check passes if and only if every audio track
\* of the output has codec opus (compared case-insensitively) and the number
\* of tracks equals the expected track count.
C34_AudioCheck ==
    vlIn.audioProbe # "unset" =>
        (AudioCheckPassed <=> (AllOpus(vlIn.streams) /\ ExpectedTracksMet))

\* ---- helpers of C35 ----
ResumeDone ==
    LET loaded == GetResume(rlExists, rlFile)
    IN  {loaded[i].Idx : i \in 1..Len(loaded)}

\* C35: a failure to append a completion record to done.txt has one
\* consequence only, that the chunk is encoded again on a later resume:
\* the run goes on appending, every chunk whose record was appended is
\* still read as done, and no chunk that was not encoded is read as done.
C35_AppendFailureOnlyReencodes ==
    /\ \A i \in 1..Len(rlAppended) : rlAppended[i].Idx \in ResumeDone
    /\ ResumeDone \subseteq rlEncoded

\* C36: permit conservation: in every interleaving each step that takes a
\* permit puts exactly one chunk in flight and each step that ends a chunk's
\* flight (encoded, failed, skipped, drained, or the enqueue given up on
\* cancellation) returns exactly one permit; the available permits stay
\* between 0 and P; and when EncodeAll has returned all P are available.
C36_PermitConservation ==
    /\ [](PoolRan => sem \in 0..permits)
    /\ [][(PoolRan /\ PoolRan') =>
             /\ sem' - sem \in {0 - 1, 0, 1}
             /\ sem' - sem = InFlight - InFlight']_vars
    /\ []((PoolRan /\ pc = "returned") => sem = permits /\ InFlight = 0)

\* C36 witness: the only worker got no video source and drained a chunk the
\* dispatcher had enqueued; EncodeAll has returned with every permit back
C36_Witness ==
    /\ PoolRan /\ pc = "returned"
    /\ actualWorkers = 1
    /\ firstErr = ErrSource(1)
    /\ di > 1
    /\ started = {}
    /\ sem = permits

\* C37: crop determinism: two runs of DetectCrop over the same detector
\* output lines return the same decision (crop required, rectangle,
\* multiple-aspect-ratios flag), whatever the order in which the samples
\* finish and however ties between equally frequent rectangles are broken.
C37_CropDeterminism ==
    dtPc = "done" => dtOut[1] = dtOut[2]

====
